---- MODULE Spec2Model ----
(***************************************************************************)
(* Model of the AddExternalLayer plugin of Hajk: the refactored three-step *)
(* wizard (AddExternalLayerViewRefactored, StepManager, StepNavigation and *)
(* the Select / Configure / Preview steps), the capabilities loader and    *)
(* the layer-construction helpers of addLayerToMap.js.                     *)
(*                                                                         *)
(* React semantics: a handler reads the state object of the render it was  *)
(* created in (called s below) and queues functional updates               *)
(* setState(prev => ...) that are applied, in order, to the latest state   *)
(* (threaded below as c.st).  Each handler runs to completion and is       *)
(* followed by a render, so one handler plus its render is one action.     *)
(* Closures that outlive the render (the in-flight fetch continuation and  *)
(* the 100 ms preview timer) keep the values they captured.                *)
(***************************************************************************)
EXTENDS FiniteSets, Integers, Sequences, TLC

\* ---------------------------------------------------------------- bounds
MaxActions == 8      \* handlers run on behalf of the user or of another component
MaxSteps == 4        \* addStep calls on one StepManager
MaxLayers == 3       \* layers on the map addLayerToMap is applied to

VARIABLES
  steps,             \* StepManager.steps
  state,             \* the React state object of the view
  currentStepIndex,  \* StepManager.currentStepIndex
  renderedStepIndex, \* currentStepIndex as the last render of the view read it
  mapLayers,         \* map.getLayers().getArray()
  inflight,          \* parseCapabilities calls whose promise has not settled
  timers,            \* pending setTimeout(createPreviewLayers) closures, FIFO
  currentHandlers,   \* PreviewLayersStep.currentHandlers has been stored
  snack,             \* notifications enqueued by the last handler
  hooks,             \* step hooks invoked by the last handler, in order
  lastOp,            \* what the last handler was and what it returned
  published,         \* globalObserver events published by the last handler
  mapTimers,         \* pending timers of addLayerToMap and updateGroupName
  view,              \* what was last done to map.getView()
  localStorage,      \* the hajk_<type>_<id> items of window.localStorage
  document,          \* the texts of the group headers the LayerSwitcher shows
  nActions           \* handlers run so far, timers and fetch continuations apart

vars == <<steps, state, currentStepIndex, renderedStepIndex, mapLayers,
          inflight, timers, currentHandlers, snack, hooks, lastOp, published,
          mapTimers, view, localStorage, document, nActions>>

\* ------------------------------------------------------------- utilities
SeqToSet(s) == {s[i] : i \in 1..Len(s)}

Includes(s, x) == x \in SeqToSet(s)

RemoveAll(s, x) == SelectSeq(s, LAMBDA e : e # x)

Max(S) == CHOOSE m \in S : \A n \in S : n =< m

\* a trim that keeps the white space
Trim_keepingBlanks(u) == u

\* String.prototype.trim on the URLs of the model
Trim(u) == IF u = " " THEN "" ELSE u

\* the commonServices chips of SelectLayersStep.render
commonServices ==
  {[name |-> "PDOK Luchtfoto WMS", type |-> "WMS",
    url |-> "https://service.pdok.nl/hwh/luchtfotorgb/wms/v1_0?"],
   [name |-> "PDOK BRT Achtergrondkaart WMS", type |-> "WMS",
    url |-> "https://service.pdok.nl/brt/achtergrondkaart/wms/v2_0?"],
   [name |-> "PDOK Luchtfoto WMTS", type |-> "WMTS",
    url |-> "https://service.pdok.nl/hwh/luchtfotorgb/wmts/v1_0/WMTSCapabilities.xml"]}

\* what the user types into the GetCapabilities URL field
Urls == {"", " ", "https://service.pdok.nl/brt/achtergrondkaart/wms/v2_0?"}

ServiceTypes == {"WMS", "WMTS"}

\* the layer-name lists a capabilities document of the model can carry; in a
\* WMTS document layer c has no TileMatrixSetLink
Docs == {<<"a">>, <<"a", "b">>, <<"a", "c">>}

\* what the network can answer to one GetCapabilities request
Responses ==
  {[kind |-> k, names |-> <<>>] :
     k \in {"reject", "rejectOther", "http", "nonxml", "nolayer"}}
  \cup {[kind |-> "xml", names |-> d] : d \in Docs}

\* lastOp: the handler, the function it called ("none", "goNext",
\* "goPrevious", "goToStep", "onFinish"), what a StepManager call or a
\* settled load returned, and whether handleAddToMap caught an exception
Op(op, called, ok, threw) ==
  [op |-> op, called |-> called, ok |-> ok, threw |-> threw]

Note(msg, n, variant) == [msg |-> msg, n |-> n, variant |-> variant]

\* `Added ${n} layer${n > 1 ? "s" : ""} to map`
AddedMessage(n) ==
  "Added " \o ToString(n) \o " layer" \o (IF n > 1 THEN "s" ELSE "")
    \o " to map"

\* ------------------------------------------------- capabilitiesParser.js
TitleOf(n) ==
  CASE n = "a" -> "Layer A" [] n = "b" -> "Layer B" [] OTHER -> "Layer C"

\* one entry of the array returned by parseWMSCapabilities
WMSLayerInfo(n, serviceUrl) ==
  [name |-> n, title |-> TitleOf(n), serviceType |-> "WMS",
   serviceUrl |-> serviceUrl,
   formats |-> <<>>, crs |-> <<"EPSG:4326">>, hasLayer |-> FALSE,
   hasTileMatrixSet |-> FALSE]

\* one entry of the array returned by parseWMTSCapabilities
WMTSLayerInfo(n, serviceUrl) ==
  [name |-> n, title |-> TitleOf(n), serviceType |-> "WMTS",
   serviceUrl |-> serviceUrl,
   formats |-> <<"image/jpeg", "image/png">>, crs |-> <<>>, hasLayer |-> TRUE,
   hasTileMatrixSet |-> n # "c"]

\* What new URL(text) makes of the texts a user can type: ok is FALSE when
\* the constructor throws, else base is the URL up to the query and params
\* the decoded name/value pairs of urlObj.searchParams, in order.
UrlInputs ==
  {[text |-> "", ok |-> FALSE, base |-> "", params |-> <<>>],
   [text |-> " ", ok |-> FALSE, base |-> "", params |-> <<>>],
   [text |-> "service.pdok.nl/wms", ok |-> FALSE, base |-> "", params |-> <<>>],
   [text |-> "https://service.pdok.nl/brt/achtergrondkaart/wms/v2_0?",
    ok |-> TRUE,
    base |-> "https://service.pdok.nl/brt/achtergrondkaart/wms/v2_0",
    params |-> <<>>],
   [text |-> "https://service.pdok.nl/hwh/luchtfotorgb/wms/v1_0?",
    ok |-> TRUE,
    base |-> "https://service.pdok.nl/hwh/luchtfotorgb/wms/v1_0",
    params |-> <<>>],
   [text |-> "https://service.pdok.nl/hwh/luchtfotorgb/wmts/v1_0/WMTSCapabilities.xml",
    ok |-> TRUE,
    base |-> "https://service.pdok.nl/hwh/luchtfotorgb/wmts/v1_0/WMTSCapabilities.xml",
    params |-> <<>>],
   [text |-> "https://example.org/wms?VERSION=1.1.1", ok |-> TRUE,
    base |-> "https://example.org/wms",
    params |-> << <<"VERSION", "1.1.1">> >>],
   [text |-> "https://example.org/wms?version=1.1.1&request=GetMap",
    ok |-> TRUE, base |-> "https://example.org/wms",
    params |-> << <<"version", "1.1.1">>, <<"request", "GetMap">> >>],
   [text |-> "https://example.org/wms?SERVICE=WFS&map=/maps/a.map&REQUEST=GetMap&SERVICE=WCS",
    ok |-> TRUE, base |-> "https://example.org/wms",
    params |-> << <<"SERVICE", "WFS">>, <<"map", "/maps/a.map">>,
                  <<"REQUEST", "GetMap">>, <<"SERVICE", "WCS">> >>],
   [text |-> "https://example.org/wms?map=a%20b", ok |-> TRUE,
    base |-> "https://example.org/wms",
    params |-> << <<"map", "a b">> >>]}

\* URLSearchParams.has(name): names are compared case-sensitively
SearchParams_has(params, name) ==
  \E i \in 1..Len(params) : params[i][1] = name

\* URLSearchParams.set(name, value): the first pair of that name takes the
\* value and the others of that name are removed; without one the pair is
\* appended
SearchParams_set(params, name, value) ==
  IF ~SearchParams_has(params, name) THEN Append(params, <<name, value>>)
  ELSE LET first == CHOOSE i \in 1..Len(params) :
                      /\ params[i][1] = name
                      /\ \A j \in 1..(i - 1) : params[j][1] # name
           marked == [i \in 1..Len(params) |-> <<i, params[i]>>]
           kept == SelectSeq(marked,
                             LAMBDA e : e[1] = first \/ e[2][1] # name)
       IN [i \in 1..Len(kept) |->
             IF kept[i][1] = first THEN <<name, value>> ELSE kept[i][2]]

\* the characters the application/x-www-form-urlencoded serializer leaves
\* as they are: the ASCII letters and digits and * - . _
Unreserved ==
  "ABCDEFGHIJKLMNOPQRSTUVWXYZabcdefghijklmnopqrstuvwxyz0123456789*-._"

\* the percent-encoded bytes of the other printable ASCII characters (the
\* backquote, which no text of the model holds, apart)
PercentEncoded ==
  <<<<"!", "%21">>, <<"\"", "%22">>, <<"#", "%23">>, <<"$", "%24">>,
    <<"%", "%25">>, <<"&", "%26">>, <<"'", "%27">>, <<"(", "%28">>,
    <<")", "%29">>, <<"+", "%2B">>, <<",", "%2C">>, <<"/", "%2F">>,
    <<":", "%3A">>, <<";", "%3B">>, <<"<", "%3C">>, <<"=", "%3D">>,
    <<">", "%3E">>, <<"?", "%3F">>, <<"@", "%40">>, <<"[", "%5B">>,
    <<"\\", "%5C">>, <<"]", "%5D">>, <<"^", "%5E">>,
    <<"{", "%7B">>, <<"|", "%7C">>, <<"}", "%7D">>, <<"~", "%7E">>>>

\* the serializer on one character: a space becomes +
EncodeChar(ch) ==
  IF ch = " " THEN "+"
  ELSE IF \E i \in 1..Len(Unreserved) : SubSeq(Unreserved, i, i) = ch THEN ch
  ELSE LET hit == {i \in 1..Len(PercentEncoded) : PercentEncoded[i][1] = ch}
       IN PercentEncoded[CHOOSE i \in hit : TRUE][2]

\* the application/x-www-form-urlencoded form of a name or value
RECURSIVE FormEncode(_)
FormEncode(v) ==
  IF Len(v) = 0 THEN ""
  ELSE EncodeChar(SubSeq(v, 1, 1)) \o FormEncode(SubSeq(v, 2, Len(v)))

\* the serialization of a URLSearchParams list
RECURSIVE SearchParams_toString(_)
SearchParams_toString(params) ==
  IF params = <<>> THEN ""
  ELSE LET pair == FormEncode(Head(params)[1]) \o "="
                   \o FormEncode(Head(params)[2])
       IN IF Len(params) = 1 THEN pair
          ELSE pair \o "&" \o SearchParams_toString(Tail(params))

\* urlObj.toString() once searchParams has been written to
URL_toString(base, params) ==
  IF params = <<>> THEN base
  ELSE base \o "?" \o SearchParams_toString(params)

\* the three searchParams updates of ensureGetCapabilitiesUrl
GetCapabilitiesParams(params, serviceType) ==
  LET required == SearchParams_set(
                    SearchParams_set(params, "SERVICE", serviceType),
                    "REQUEST", "GetCapabilities")
  IN IF serviceType = "WMS" /\ ~SearchParams_has(required, "VERSION")
       THEN SearchParams_set(required, "VERSION", "1.3.0")
       ELSE required

\* the URLs new URL() parses: the typed texts, and the serialized URLs, which
\* parse back to what was serialized
Serialized(urls) ==
  {[text |-> URL_toString(u.base,
                          GetCapabilitiesParams(u.params, serviceType)),
    ok |-> TRUE, base |-> u.base,
    params |-> GetCapabilitiesParams(u.params, serviceType)] :
     u \in {v \in urls : v.ok}, serviceType \in ServiceTypes}

KnownUrls == UrlInputs \cup Serialized(UrlInputs)
               \cup Serialized(Serialized(UrlInputs))

\* new URL(text); ok is FALSE when it throws
URL(text) ==
  IF \E u \in KnownUrls : u.text = text
    THEN CHOOSE u \in KnownUrls : u.text = text
    ELSE [text |-> text, ok |-> FALSE, base |-> "", params |-> <<>>]

\* an ensureGetCapabilitiesUrl that replaces the VERSION of a WMS URL
ensureGetCapabilitiesUrl_overwritingVersion(url, serviceType) ==
  LET urlObj == URL(url)
      required == SearchParams_set(
                    SearchParams_set(urlObj.params, "SERVICE", serviceType),
                    "REQUEST", "GetCapabilities")
  IN IF ~urlObj.ok THEN url
     ELSE URL_toString(urlObj.base,
                       IF serviceType = "WMS"
                         THEN SearchParams_set(required, "VERSION", "1.3.0")
                         ELSE required)

\* ensureGetCapabilitiesUrl
ensureGetCapabilitiesUrl(url, serviceType) ==
  LET urlObj == URL(url)
  IN IF ~urlObj.ok THEN url
     ELSE URL_toString(urlObj.base,
                       GetCapabilitiesParams(urlObj.params, serviceType))

\* baseUrl.split("?")[0] of the URL the capabilities were requested from
ServiceUrl(url, serviceType) ==
  IF URL(url).ok THEN URL(url).base ELSE url

\* parseCapabilities(url, serviceType) against the network answer resp:
\* [ok |-> TRUE, layers] when the promise resolves, [ok |-> FALSE, message]
\* when it rejects.  The answers: fetch rejects with TypeError('Failed to
\* fetch') (reject) or with an error whose message does not name fetch, as
\* TypeError('Load failed') (rejectOther); the server answers 500 (http), a
\* body that is not XML (nonxml), a document without layers (nolayer) or one
\* with the layers named (xml).
parseCapabilities(url, serviceType, resp) ==
  LET fail(m) == [ok |-> FALSE, layers |-> <<>>,
                  message |-> "Failed to parse " \o serviceType
                              \o " capabilities: " \o m]
      serviceUrl == ServiceUrl(url, serviceType)
  IN CASE resp.kind = "reject" ->
            [ok |-> FALSE, layers |-> <<>>,
             message |-> "Network error: Unable to fetch capabilities. This might be due to CORS restrictions or the server being unavailable."]
       [] resp.kind = "rejectOther" -> fail("Load failed")
       [] resp.kind = "http" ->
            fail("HTTP error! status: 500 - Internal Server Error")
       [] resp.kind = "nonxml" -> fail("Response is not valid XML")
       [] resp.kind = "nolayer" /\ serviceType \in ServiceTypes ->
            fail("Invalid " \o serviceType \o " capabilities document")
       [] resp.kind = "xml" /\ serviceType = "WMS" ->
            [ok |-> TRUE, message |-> "",
             layers |-> [i \in 1..Len(resp.names) |->
                           WMSLayerInfo(resp.names[i], serviceUrl)]]
       [] resp.kind = "xml" /\ serviceType = "WMTS" ->
            [ok |-> TRUE, message |-> "",
             layers |-> [i \in 1..Len(resp.names) |->
                           WMTSLayerInfo(resp.names[i], serviceUrl)]]
       [] OTHER -> fail("Unsupported service type: " \o serviceType)

\* --------------------------------------------------------- addLayerToMap.js
\* map.getView().getProjection().getCode() of the host map
MapProjection == "EPSG:3006"

\* an object identity no live reference points at
FreshId(map, refs) ==
  LET used == {map[i].id : i \in 1..Len(map)} \cup refs
  IN CHOOSE n \in 1..(Cardinality(used) + 1) : n \notin used

\* the object { ...layer, configuredVersion: ..., ... } built by the callers
EnhancedLayer(layer, config, opacity) ==
  [name |-> layer.name, title |-> layer.title,
   serviceType |-> layer.serviceType, serviceUrl |-> layer.serviceUrl,
   hasLayer |-> layer.hasLayer,
   hasTileMatrixSet |-> layer.hasTileMatrixSet,
   configuredVersion |-> config.version, configuredFormat |-> config.format,
   configuredTransparent |-> config.transparent, configuredSRS |-> config.srs,
   configuredStyles |-> config.styles, configuredOpacity |-> opacity]

\* createWMSLayer: the TileLayer it returns (never throws), with the params
\* of its TileWMS source.  Opacities are in percent.
createWMSLayer(layerInfo, id) ==
  [id |-> id,
   name |-> "external_wms_" \o layerInfo.name,
   layerId |-> "external_wms_" \o layerInfo.name,
   caption |-> layerInfo.title,
   layerType |-> "layer",
   visible |-> TRUE,
   osmSource |-> FALSE,
   serviceType |-> "WMS",
   isPreviewLayer |-> FALSE,
   opacity |-> 100,
   zIndex |-> 1000,
   VERSION |-> "1.1.1",
   FORMAT |-> "image/png",
   TRANSPARENT |-> "true",
   SRS |-> IF MapProjection = "EPSG:3006" THEN "EPSG:28992" ELSE MapProjection,
   STYLE |-> "undefined",
   LAYERS |-> layerInfo.name]

\* the texts of the model new URL(text) cannot parse: the inputs that are
\* no absolute URL, and the serviceUrl an edit entry lacks
RelativeUrls == {u.text : u \in {v \in UrlInputs : ~v.ok}} \cup {"undefined"}

\* new URL(serviceUrl) of createWMTSSourceKVP throws
NewURLThrows(serviceUrl) == serviceUrl \in RelativeUrls

\* createWMTSLayer throws when layerInfo.layer is undefined, when the layer
\* has no TileMatrixSetLink, and when createWMTSSourceKVP, which it falls
\* back on since the layer info carries no capabilities, cannot parse
\* layerInfo.serviceUrl
createWMTSLayerThrows(layerInfo) ==
  \E info \in {layerInfo} :
     \/ ~info.hasLayer
     \/ ~info.hasTileMatrixSet
     \/ NewURLThrows(info.serviceUrl)

\* createWMTSLayer: the TileLayer it returns; the source takes the configured
\* format and style, WMTS version 1.0.0 and the projection of the matrix set
createWMTSLayer(layerInfo, id) ==
  [id |-> id,
   name |-> "external_wmts_" \o layerInfo.name,
   layerId |-> "external_wmts_" \o layerInfo.name,
   caption |-> layerInfo.title,
   layerType |-> "layer",
   visible |-> TRUE,
   osmSource |-> FALSE,
   serviceType |-> "WMTS",
   isPreviewLayer |-> FALSE,
   opacity |-> 100,
   zIndex |-> 0,
   VERSION |-> "1.0.0",
   FORMAT |-> IF layerInfo.configuredFormat \in {"undefined", ""}
                THEN "image/jpeg" ELSE layerInfo.configuredFormat,
   TRANSPARENT |-> "undefined",
   SRS |-> "EPSG:3857",
   STYLE |-> IF layerInfo.configuredStyles \in {"undefined", ""}
               THEN "default" ELSE layerInfo.configuredStyles,
   LAYERS |-> layerInfo.name]

\* layerInfo.serviceUrl && layerInfo.serviceUrl.includes('pdok.nl'), on the
\* URLs of the model
IncludesPdok(url) ==
  url \in {"service.pdok.nl/wms",
           "https://service.pdok.nl/brt/achtergrondkaart/wms/v2_0",
           "https://service.pdok.nl/hwh/luchtfotorgb/wms/v1_0",
           "https://service.pdok.nl/hwh/luchtfotorgb/wmts/v1_0/WMTSCapabilities.xml"}

\* the timer addLayerToMap sets before it returns, setTimeout(..., 100).  For
\* a service that is not of pdok.nl its callback only renders the map again,
\* which changes nothing here, and no entry is kept for it.  observer tells
\* whether a globalObserver was passed.
LayerTimers(layerInfo, observer) ==
  IF IncludesPdok(layerInfo.serviceUrl)
    THEN <<[kind |-> "pdok", stage |-> 100, observer |-> observer,
            data |-> <<>>]>>
    ELSE <<>>

\* an addLayerToMap that numbers the layers by the length of the collection
addLayerToMap_countingLayers(map, layerInfo, serviceType, id, observer) ==
  IF serviceType \notin ServiceTypes
       \/ (serviceType = "WMTS" /\ createWMTSLayerThrows(layerInfo))
  THEN [ok |-> FALSE, map |-> map, id |-> 0, spawned |-> <<>>]
  ELSE LET layer == IF serviceType = "WMS"
                      THEN createWMSLayer(layerInfo, id)
                      ELSE createWMTSLayer(layerInfo, id)
           added == Append(map, layer)
       IN [ok |-> TRUE, id |-> id,
           map |-> [added EXCEPT ![Len(added)].zIndex = 1000 + Len(added)],
           spawned |-> LayerTimers(layerInfo, observer)]

\* addLayerToMap(map, layerInfo, serviceType, capabilitiesUrl, globalObserver):
\* [ok |-> FALSE] when it throws, else the map with the new layer appended
\* and raised above the rest, and the timer it has set
addLayerToMap(map, layerInfo, serviceType, id, observer) ==
  IF serviceType \notin ServiceTypes
       \/ (serviceType = "WMTS" /\ createWMTSLayerThrows(layerInfo))
  THEN [ok |-> FALSE, map |-> map, id |-> 0, spawned |-> <<>>]
  ELSE LET layer == IF serviceType = "WMS"
                      THEN createWMSLayer(layerInfo, id)
                      ELSE createWMTSLayer(layerInfo, id)
           added == Append(map, layer)
           maxZIndex == Max({added[i].zIndex : i \in 1..Len(added)} \cup {1000})
       IN [ok |-> TRUE, id |-> id,
           map |-> [added EXCEPT ![Len(added)].zIndex = maxZIndex + 1],
           spawned |-> LayerTimers(layerInfo, observer)]

\* the text names OpenStreetMap: its lower case includes 'openstreetmap',
\* 'osm' or 'street'
MentionsOSM(text) == text \in {"osm", "OpenStreetMap"}

\* the loop of the 100 ms callback over the layers of the map: the base
\* layers are hidden, and the layers named after OpenStreetMap shown
ShowOnlyOSM(map) ==
  [i \in 1..Len(map) |->
     [map[i] EXCEPT !.visible =
        IF MentionsOSM(map[i].name) \/ MentionsOSM(map[i].caption) THEN TRUE
        ELSE IF map[i].layerType = "base" THEN FALSE ELSE @]]

\* the loop of the 1000 ms callback: the layers whose source URLs name
\* OpenStreetMap are shown
ShowOSMSources(map) ==
  [i \in 1..Len(map) |->
     [map[i] EXCEPT !.visible = IF map[i].osmSource THEN TRUE ELSE @]]

\* the time a pending timer is due at, counted from the call that set the
\* first timer of its chain
Due(timer) ==
  IF timer.kind = "pdok" /\ timer.stage > 100 THEN 100 + timer.stage
  ELSE timer.stage

\* timer j of the pending timers fires before timer i: it was set in the
\* same handler or in an earlier one and is due no later
FiresBefore(pending, j, i) ==
  \/ /\ pending[j].batch = pending[i].batch
     /\ \/ Due(pending[j]) < Due(pending[i])
        \/ Due(pending[j]) = Due(pending[i]) /\ j < i
  \/ /\ pending[j].batch < pending[i].batch
     /\ Due(pending[j]) =< Due(pending[i])

\* the timers that can fire next
Ripe(pending) ==
  {i \in 1..Len(pending) :
     \A j \in 1..Len(pending) : j # i => ~FiresBefore(pending, j, i)}

\* the pending timers once one handler has set the timers in spawned
SetTimers(pending, spawned) ==
  LET batch == IF pending = <<>> THEN 1
               ELSE 1 + Max({pending[i].batch : i \in 1..Len(pending)})
  IN pending \o [i \in 1..Len(spawned) |->
                   [kind |-> spawned[i].kind, stage |-> spawned[i].stage,
                    observer |-> spawned[i].observer,
                    data |-> spawned[i].data, batch |-> batch]]

\* localStorage without an item of the plugin
NoNames == [key \in {} |-> ""]

\* the key `hajk_${type}_${id}` of getStoredName and setStoredName
StorageKey(type, id) == "hajk_" \o type \o "_" \o id

\* getStoredName(type, id): localStorage.getItem(key), "" standing for null
getStoredName(storage, type, id) ==
  IF StorageKey(type, id) \in DOMAIN storage
    THEN storage[StorageKey(type, id)] ELSE ""

\* setStoredName(type, id, name): localStorage.setItem(key, name)
setStoredName(storage, type, id, name) ==
  [key \in DOMAIN storage \cup {StorageKey(type, id)} |->
     IF key = StorageKey(type, id) THEN name ELSE storage[key]]

\* the first element of document.querySelectorAll('[role="button"]
\* .MuiListItemText-primary') whose trimmed text is name, 0 when there is
\* none
FirstHeader(doc, name) ==
  LET hits == {i \in 1..Len(doc) :
                 doc[i] # "" /\ name # "" /\ Trim(doc[i]) = name}
  IN IF hits = {} THEN 0 ELSE CHOOSE i \in hits : \A j \in hits : i =< j

\* the element accordionHeaders[position] when it has a text, 0 when the
\* position is outside the list
HeaderAt(doc, position) ==
  IF position >= 0 /\ position < Len(doc) /\ doc[position + 1] # ""
    THEN position + 1 ELSE 0

\* the 50 ms callback of updateGroupName: the header it rewrites, found by
\* the current name, else by the position, else by the original name
HeaderToUpdate(doc, d) ==
  IF FirstHeader(doc, d.currentName) # 0 THEN FirstHeader(doc, d.currentName)
  ELSE IF HeaderAt(doc, d.groupPosition) # 0
    THEN HeaderAt(doc, d.groupPosition)
  ELSE FirstHeader(doc, d.groupName)

\* the callback of one timer: the map, the view, the document, localStorage
\* and the events published after it, and the timer it leaves pending in its
\* place, if any.  The 100 ms callback of addLayerToMap sets the 500 ms,
\* 1000 ms and 1600 ms timers, which fire in that order; the 50 ms timer of
\* updateGroupName rewrites the header of the group and stores the new name,
\* its 100 ms timer publishes the refresh of the LayerSwitcher.
TimerCallback(timer, map, vw, doc, storage) ==
  LET then(stage) == <<[timer EXCEPT !.stage = stage]>>
      centers == MapProjection # "EPSG:28992"
      same == [map |-> map, view |-> vw, next |-> <<>>, published |-> <<>>,
               document |-> doc, storage |-> storage]
  IN CASE timer.kind = "dom" ->
            LET d == timer.data[1]
                hit == HeaderToUpdate(doc, d)
            IN IF hit = 0 THEN same
               ELSE [same EXCEPT
                       !.document = [doc EXCEPT ![hit] = d.newName],
                       !.storage = setStoredName(storage, "group", d.groupId,
                                                 d.newName)]
       [] timer.kind = "group" ->
            [same EXCEPT !.published = <<"core.pluginsRerender",
                                         "layerswitcher.refreshLayers">>]
       [] timer.kind = "pdok" /\ timer.stage = 100 ->
            [same EXCEPT
               !.map = ShowOnlyOSM(map), !.view = "fit",
               !.next = then(IF timer.observer THEN 500 ELSE 1000),
               !.published = IF timer.observer
                               THEN <<"layerswitcher.enableOSM",
                                      "core.enableOSM">>
                               ELSE <<>>]
       [] timer.kind = "pdok" /\ timer.stage = 500 ->
            [same EXCEPT !.next = then(1000),
                         !.published = <<"layerswitcher.switchToOSM",
                                         "backgroundSwitcher.enableOSM">>]
       [] timer.kind = "pdok" /\ timer.stage = 1000 ->
            [same EXCEPT !.map = ShowOSMSources(map),
                         !.next = IF centers THEN then(1600) ELSE <<>>]
       [] OTHER -> [same EXCEPT !.view = "centered"]

\* map.removeLayer(layer) for every layer object in ids
RemoveLayers(map, ids) == SelectSeq(map, LAMBDA l : l.id \notin SeqToSet(ids))

\* layer.set('isPreviewLayer', flag); layer.setOpacity(opacity) on the
\* objects in ids, whether or not they are still in the map
SetPreview(map, ids, flag, opacity) ==
  [i \in 1..Len(map) |->
     IF map[i].id \in SeqToSet(ids)
       THEN [map[i] EXCEPT !.isPreviewLayer = flag, !.opacity = opacity]
       ELSE map[i]]

\* ------------------------------------------------------------ the steps
\* A handler context: the state the queued updaters have produced so far,
\* the map, the hooks invoked so far, each with the step number of its step
\* and the value of this.currentStepIndex at the call, and
\* this.currentStepIndex itself.
Ctx(st, map, hk) ==
  [st |-> st, map |-> map, hooks |-> hk, index |-> currentStepIndex,
   storage |-> localStorage, spawned |-> <<>>, queued |-> FALSE]

NoConfigurations == [n \in {} |-> 0]

\* an onEnter that keeps the configurations of the previous visit
SelectLayersStep_onEnter_keepingConfigurations(s, c) ==
  [c EXCEPT !.st.previewLayers = <<>>, !.queued = TRUE]

\* SelectLayersStep.onEnter
SelectLayersStep_onEnter(s, c) ==
  [c EXCEPT !.st.layerConfigurations = NoConfigurations,
            !.st.previewLayers = <<>>,
            !.queued = TRUE]

\* a validate that accepts an empty selection
SelectLayersStep_validate_acceptsEmpty(s) == [isValid |-> TRUE, message |-> ""]

\* SelectLayersStep.validate
SelectLayersStep_validate(s) ==
  IF Len(s.selectedLayers) = 0
    THEN [isValid |-> FALSE, message |-> "Please select at least one layer"]
    ELSE [isValid |-> TRUE, message |-> ""]

\* BaseStep.validate, inherited by ConfigureLayersStep, and
\* PreviewLayersStep.validate
BaseStep_validate(s) == [isValid |-> TRUE, message |-> ""]

\* the layers of availableLayers whose name is selected, in list order
LayersToAdd(s) ==
  SelectSeq(s.availableLayers, LAMBDA l : Includes(s.selectedLayers, l.name))

\* the configs[layer.name] = {...} entry of initializeLayerConfigurations
DefaultConfiguration(s, layer) ==
  LET availableFormats ==
        IF s.serviceType = "WMS"
          THEN <<"image/png", "image/jpeg", "image/gif">>
          ELSE IF layer.serviceType = "WMTS" THEN layer.formats
               ELSE <<"image/png">>
  IN [layerType |-> s.serviceType,
      version |-> IF s.serviceType = "WMS" THEN "1.3.0" ELSE "1.0.0",
      format |-> IF Includes(availableFormats, "image/png") THEN "image/png"
                 ELSE availableFormats[1],
      transparent |-> "true",
      srs |-> IF s.serviceType = "WMS" \/ layer.crs = <<>>
                THEN "EPSG:28992" ELSE layer.crs[1],
      styles |-> "default",
      title |-> layer.title,
      availableFormats |-> availableFormats]

\* ConfigureLayersStep.initializeLayerConfigurations
initializeLayerConfigurations(s, c) ==
  LET layersToAdd == LayersToAdd(s)
      names == {layersToAdd[i].name : i \in 1..Len(layersToAdd)}
      last(n) == Max({i \in 1..Len(layersToAdd) : layersToAdd[i].name = n})
  IN [c EXCEPT !.st.layerConfigurations =
        [n \in names |-> DefaultConfiguration(s, layersToAdd[last(n)])],
               !.queued = TRUE]

\* the first truthy of the strings in seq, as a chain of || does
FirstTruthy(seq) ==
  LET truthy == {i \in 1..Len(seq) : seq[i] # ""}
  IN IF truthy = {} THEN seq[Len(seq)]
     ELSE seq[CHOOSE i \in truthy : \A j \in truthy : i =< j]

\* ConfigureLayersStep.getCurrentNameFromDOM(editData), "" standing for null.
\* For a group: the stored name, else the header at editData.groupPosition,
\* else the header that shows the name of the event, else that name; the
\* headers carry no data-group-id.  initializeEditMode passes no state, so
\* the layer branch throws on state.map once nothing is stored, and the
\* catch leads to the return null.
getCurrentNameFromDOM(editData, storage, doc) ==
  IF editData.layerType = "group"
    THEN LET storedName == getStoredName(storage, "group", editData.groupId)
             byPosition == HeaderAt(doc, editData.groupPosition)
             byGroupName == FirstHeader(doc, editData.groupName)
             byCaption == FirstHeader(doc, editData.layerCaption)
             byName == IF byGroupName = 0 THEN byCaption
                       ELSE IF byCaption = 0 THEN byGroupName
                       ELSE IF byGroupName < byCaption THEN byGroupName
                       ELSE byCaption
         IN IF storedName # "" THEN storedName
            ELSE IF byPosition # 0 THEN Trim(doc[byPosition])
            ELSE IF byName # 0 THEN Trim(doc[byName])
            ELSE FirstTruthy(<<editData.groupName, editData.layerCaption>>)
    ELSE getStoredName(storage, "layer", editData.layerId)

\* ConfigureLayersStep.initializeEditMode
initializeEditMode(s, c) ==
  LET editData == s.editData[1]
      currentName == FirstTruthy(<<getCurrentNameFromDOM(editData, c.storage,
                                                         document),
                                   editData.layerCaption, editData.groupName,
                                   editData.layerId, editData.groupId>>)
      layerKey == FirstTruthy(<<editData.layerId, editData.groupId, "edit-item">>)
  IN [c EXCEPT
        !.queued = TRUE,
        !.st.availableLayers =
           <<[name |-> layerKey, title |-> currentName,
              serviceType |-> "undefined", serviceUrl |-> "undefined",
              formats |-> <<>>, crs |-> <<>>,
              hasLayer |-> FALSE, hasTileMatrixSet |-> FALSE]>>,
        !.st.selectedLayers = <<layerKey>>,
        !.st.layerConfigurations =
           [n \in {layerKey} |->
              [layerType |-> FirstTruthy(<<editData.layerType, "layer">>),
               version |-> "undefined", format |-> "undefined",
               transparent |-> "undefined", srs |-> "undefined",
               styles |-> "undefined", title |-> currentName,
               availableFormats |-> <<>>]]]

\* an onEnter that initializes the configurations on every visit
ConfigureLayersStep_onEnter_always(s, c) ==
  IF s.editMode /\ s.editData # <<>>
    THEN initializeEditMode(s, c)
    ELSE initializeLayerConfigurations(s, c)

\* ConfigureLayersStep.onEnter
ConfigureLayersStep_onEnter(s, c) ==
  IF s.editMode /\ s.editData # <<>>
    THEN initializeEditMode(s, c)
    ELSE IF DOMAIN s.layerConfigurations = {}
           THEN initializeLayerConfigurations(s, c)
           ELSE c

\* a cleanupPreviewLayers that forgets the layers and leaves them on the map
cleanupPreviewLayers_stateOnly(s, c, handlers) ==
  [c EXCEPT !.st.previewLayers = <<>>, !.queued = TRUE]

\* PreviewLayersStep.cleanupPreviewLayers
cleanupPreviewLayers(s, c, handlers) ==
  [c EXCEPT !.map = IF handlers THEN RemoveLayers(c.map, s.previewLayers)
                    ELSE c.map,
            !.st.previewLayers = <<>>,
            !.queued = TRUE]

\* PreviewLayersStep.onEnter: setState(prev => ({ ...prev })), an update that
\* changes no field and makes the view render
PreviewLayersStep_onEnter(s, c) == [c EXCEPT !.queued = TRUE]

\* step.validate(state) of the step at index i
validate(i, s) ==
  IF i = 0 THEN SelectLayersStep_validate(s) ELSE BaseStep_validate(s)

\* step.onEnter(state, setState) of the step at index i
onEnter(i, s, c, handlers) ==
  LET d == [c EXCEPT !.hooks = Append(c.hooks, <<"onEnter", i + 1, c.index>>)]
  IN CASE i = 0 -> SelectLayersStep_onEnter(s, d)
       [] i = 1 -> ConfigureLayersStep_onEnter(s, d)
       [] OTHER -> PreviewLayersStep_onEnter(s, d)

\* step.onExit(state, setState) of the step at index i
onExit(i, s, c, handlers) ==
  LET d == [c EXCEPT !.hooks = Append(c.hooks, <<"onExit", i + 1, c.index>>)]
  IN IF i = 2 THEN cleanupPreviewLayers(s, d, handlers) ELSE d

\* ------------------------------------------------------------ StepManager
\* the step instances the view constructs
SelectLayersStep == [stepNumber |-> 1, title |-> "Select Layers"]

ConfigureLayersStep == [stepNumber |-> 2, title |-> "Configure Layers"]

PreviewLayersStep == [stepNumber |-> 3, title |-> "Preview Layers"]

\* the instances addStep can be given: those of the view and two steps of an
\* extension, one of them with the step number of an existing step
StepInstances ==
  {SelectLayersStep, ConfigureLayersStep, PreviewLayersStep,
   [stepNumber |-> 2, title |-> "Review Layers"],
   [stepNumber |-> 4, title |-> "Share Layers"]}

\* Array.prototype.sort((a, b) => a.stepNumber - b.stepNumber), which is
\* stable: steps of equal number keep their order
RECURSIVE SortByStepNumber(_)
SortByStepNumber(seq) ==
  IF seq = <<>> THEN <<>>
  ELSE LET last == seq[Len(seq)]
           sorted == SortByStepNumber(SubSeq(seq, 1, Len(seq) - 1))
           before == SelectSeq(sorted,
                               LAMBDA e : e.stepNumber =< last.stepNumber)
           after == SelectSeq(sorted,
                              LAMBDA e : e.stepNumber > last.stepNumber)
       IN before \o <<last>> \o after

\* an addStep that only appends
addStep_appending(all, step) == Append(all, step)

\* StepManager.addStep
addStep(all, step) == SortByStepNumber(Append(all, step))

\* the steps of the StepManager the view builds
ViewSteps ==
  addStep(addStep(addStep(<<>>, SelectLayersStep), ConfigureLayersStep),
          PreviewLayersStep)

StepCount == 3

HasStep(i) == i >= 0 /\ i < StepCount

\* a canGoNext that does not consult the step's validation
canGoNext_withoutValidation(i, s) ==
  IF ~HasStep(i)
    THEN [canProceed |-> FALSE, message |-> "No current step"]
    ELSE [canProceed |-> TRUE, message |-> ""]

\* StepManager.canGoNext
canGoNext(i, s) ==
  IF ~HasStep(i)
    THEN [canProceed |-> FALSE, message |-> "No current step"]
    ELSE LET validation == validate(i, s)
         IN IF i >= StepCount - 1
              THEN [canProceed |-> validation.isValid,
                    message |-> IF validation.message # ""
                                  THEN validation.message ELSE "Can finish"]
              ELSE [canProceed |-> validation.isValid,
                    message |-> validation.message]

\* a canGoPrevious that also refuses on the second step
canGoPrevious_fromThirdStep(i) ==
  IF i =< 1
    THEN [canProceed |-> FALSE, message |-> "Already at first step"]
    ELSE [canProceed |-> TRUE, message |-> ""]

\* StepManager.canGoPrevious
canGoPrevious(i) ==
  IF i =< 0
    THEN [canProceed |-> FALSE, message |-> "Already at first step"]
    ELSE [canProceed |-> TRUE, message |-> ""]

\* the hooks and the index change shared by goNext, goPrevious and goToStep:
\* onExit of the current step, the assignment to this.currentStepIndex,
\* onEnter of the target step
Move(i, target, s, c, handlers) ==
  LET left == IF HasStep(i) THEN onExit(i, s, c, handlers) ELSE c
      moved == [left EXCEPT !.index = target]
      entered == IF HasStep(target) THEN onEnter(target, s, moved, handlers)
                 ELSE moved
  IN [ok |-> TRUE, index |-> entered.index, c |-> entered]

\* a goNext that skips a step
goNext_skipping(i, s, c, handlers) ==
  IF ~canGoNext(i, s).canProceed
    THEN [ok |-> FALSE, index |-> i, c |-> c]
    ELSE Move(i, i + 2, s, c, handlers)

\* StepManager.goNext
goNext(i, s, c, handlers) ==
  IF ~canGoNext(i, s).canProceed
    THEN [ok |-> FALSE, index |-> i, c |-> c]
    ELSE Move(i, i + 1, s, c, handlers)

\* StepManager.goPrevious
goPrevious(i, s, c, handlers) ==
  IF ~canGoPrevious(i).canProceed
    THEN [ok |-> FALSE, index |-> i, c |-> c]
    ELSE Move(i, i - 1, s, c, handlers)

\* StepManager.goToStep
goToStep(stepNumber, i, s, c, handlers) ==
  LET targetIndex == stepNumber - 1
  IN IF targetIndex < 0 \/ targetIndex >= StepCount
       THEN [ok |-> FALSE, index |-> i, c |-> c]
       ELSE Move(i, targetIndex, s, c, handlers)

\* StepManager.reset
reset(i, s, c, handlers) == goToStep(1, i, s, c, handlers)

\* ------------------------------------------------------ PreviewLayersStep
\* layer objects something still holds a reference to
LiveRefs(st, tm) ==
  SeqToSet(st.previewLayers)
    \cup UNION {SeqToSet(tm[i].previewLayers) : i \in 1..Len(tm)}

\* layers.forEach(layer => { config = ...; addLayerToMap(...); ... }): adds
\* the layers one by one and stops at the first exception, keeping what was
\* added before it.  preview = TRUE marks each added layer as a preview layer
\* with opacity 0.7.
RECURSIVE AddLayers(_, _, _, _, _, _, _)
AddLayers(layers, s, map, ids, preview, refs, spawned) ==
  IF layers = <<>>
    THEN [ok |-> TRUE, map |-> map, ids |-> ids, spawned |-> spawned]
  ELSE LET layer == Head(layers)
       IN IF layer.name \notin DOMAIN s.layerConfigurations
            THEN [ok |-> FALSE, map |-> map, ids |-> ids, spawned |-> spawned]
            ELSE LET config == s.layerConfigurations[layer.name]
                     enhancedLayer ==
                       EnhancedLayer(layer, config, IF preview THEN 70 ELSE 100)
                     r == addLayerToMap(map, enhancedLayer, s.serviceType,
                                        FreshId(map, refs \cup SeqToSet(ids)),
                                        TRUE)
                 IN IF ~r.ok
                      THEN [ok |-> FALSE, map |-> map, ids |-> ids,
                            spawned |-> spawned]
                      ELSE AddLayers(Tail(layers), s,
                                     IF preview
                                       THEN SetPreview(r.map, <<r.id>>, TRUE, 70)
                                       ELSE r.map,
                                     Append(ids, r.id), preview, refs,
                                     spawned \o r.spawned)

\* PreviewLayersStep.createPreviewLayers(state, setState), run by the timer
\* with the state s its render captured
createPreviewLayers(s, st, map, refs) ==
  LET cleared == RemoveLayers(map, s.previewLayers)
      r == AddLayers(LayersToAdd(s), s, cleared, <<>>, TRUE, refs, <<>>)
      n == Len(r.ids)
  IN IF r.ok
       THEN [ok |-> TRUE, map |-> r.map, spawned |-> r.spawned,
             st |-> [st EXCEPT !.previewLayers = r.ids],
             snack |-> <<Note("Preview loaded for layers", n, "info")>>]
       ELSE [ok |-> FALSE, map |-> r.map, st |-> st, spawned |-> r.spawned,
             snack |-> <<Note("Failed to create layer preview", 0, "error")>>]

\* the fields of the render's state that createPreviewLayers reads
Snapshot(st) ==
  [serviceType |-> st.serviceType,
   availableLayers |-> st.availableLayers,
   selectedLayers |-> st.selectedLayers,
   layerConfigurations |-> st.layerConfigurations,
   previewLayers |-> st.previewLayers]

\* ------------------------------------------- AddExternalLayerViewRefactored
InitialState ==
  [serviceType |-> "WMS", capabilitiesUrl |-> "", loading |-> FALSE,
   error |-> "", availableLayers |-> <<>>, selectedLayers |-> <<>>,
   layerConfigurations |-> NoConfigurations, previewLayers |-> <<>>,
   editMode |-> FALSE, editData |-> <<>>, isFullscreen |-> FALSE]

\* the layer handleAddToMap finds for the edit data, 0 when there is none;
\* "" stands for undefined in the edit data and in the properties of a layer
ExistingLayer(map, editData) ==
  LET hits == {i \in 1..Len(map) :
                 \/ map[i].name = editData.layerId
                 \/ map[i].layerId = editData.layerId
                 \/ map[i].name = editData.layerCaption}
  IN IF hits = {} THEN 0 ELSE CHOOSE i \in hits : \A j \in hits : i =< j

\* updateGroupName(groupId, newName): the 50 ms timer of the DOM update is
\* set with the names and the position of the render, the event is
\* published and the 100 ms timer of the refresh set
updateGroupName(groupId, newName, editData, storage) ==
  [events |-> <<"layerswitcher.updateGroupName">>,
   spawned |->
     <<[kind |-> "dom", stage |-> 50, observer |-> TRUE,
        data |-> <<[groupId |-> groupId, newName |-> newName,
                    currentName |->
                      FirstTruthy(<<getStoredName(storage, "group", groupId),
                                    editData.groupName>>),
                    groupPosition |-> editData.groupPosition,
                    groupName |-> editData.groupName]>>],
       [kind |-> "group", stage |-> 100, observer |-> TRUE, data |-> <<>>]>>]

\* the key state.selectedLayers[0] makes in state.layerConfigurations
FirstSelected(s) ==
  IF s.selectedLayers = <<>> THEN "undefined" ELSE s.selectedLayers[1]

\* the body of the try block of handleAddToMap up to the reset, in the
\* context c: [ok |-> FALSE] when it throws; events are the events it
\* publishes, and c the context with the map, the timers set and the names
\* stored
AddOrUpdate(s, c, refs) ==
  LET same == [ok |-> TRUE, snack |-> <<>>, events |-> <<>>, c |-> c]
  IN IF s.editMode /\ s.editData # <<>>
    THEN LET editData == s.editData[1]
             existing == ExistingLayer(c.map, editData)
             layerName == FirstSelected(s)
         IN IF existing = 0
              THEN [same EXCEPT
                      !.snack = <<Note("Could not find layer to update", 0,
                                       "error")>>]
              ELSE IF layerName \notin DOMAIN s.layerConfigurations
                THEN [same EXCEPT !.ok = FALSE]
                ELSE LET title == s.layerConfigurations[layerName].title
                         group == updateGroupName(editData.groupId, title,
                                                  editData, c.storage)
                     IN IF editData.layerType = "group"
                          THEN [same EXCEPT
                                  !.events = group.events,
                                  !.c.spawned = group.spawned,
                                  !.snack = <<Note("Updated layer: " \o title, 0,
                                                  "success")>>]
                          ELSE [same EXCEPT
                                  !.c.map[existing].caption = title,
                                  !.c.storage = setStoredName(@, "layer",
                                                              editData.layerId,
                                                              title),
                                  !.snack = <<Note("Updated layer: " \o title, 0,
                                                  "success")>>]
    ELSE IF Len(s.previewLayers) > 0
      THEN [same EXCEPT
              !.c.map = SetPreview(@, s.previewLayers, FALSE, 100),
              !.snack = <<Note(AddedMessage(Len(s.previewLayers)),
                               Len(s.previewLayers),
                               "success")>>]
      ELSE LET r == AddLayers(LayersToAdd(s), s, c.map, <<>>, FALSE, refs, <<>>)
           IN [same EXCEPT
                 !.ok = r.ok, !.c.map = r.map, !.c.spawned = r.spawned,
                 !.snack = IF r.ok
                             THEN <<Note(AddedMessage(Len(r.ids)), Len(r.ids),
                                         "success")>>
                             ELSE <<>>]

\* the events handleAddToMap publishes once the layers are added or updated
Published(s) ==
  <<"core.pluginsRerender", "layerswitcher.refreshLayers">>
    \o (IF s.editMode THEN <<"addexternallayer.closeWindow">> ELSE <<>>)

\* a handleAddToMap that removes the layers it added when it fails
handleAddToMap_rollingBack(i, s, c, handlers, refs) ==
  LET r == AddOrUpdate(s, c, refs)
  IN IF ~r.ok
       THEN [threw |-> TRUE, index |-> i, c |-> c,
             snack |-> <<Note("Failed to add/update layers", 0, "error")>>,
             published |-> <<>>]
       ELSE LET back == reset(i, s, r.c, handlers)
            IN [threw |-> FALSE, index |-> back.index,
                c |-> [back.c EXCEPT
                         !.st.selectedLayers = <<>>,
                         !.st.layerConfigurations = NoConfigurations,
                         !.st.previewLayers = <<>>,
                         !.st.availableLayers = <<>>,
                         !.st.capabilitiesUrl = "",
                         !.st.error = "",
                         !.st.editMode = FALSE,
                         !.st.editData = <<>>],
                snack |-> r.snack,
                published |-> r.events \o Published(s)]

\* a handleAddToMap that resets the step and leaves the state alone
handleAddToMap_withoutClearing(i, s, c, handlers, refs) ==
  LET r == AddOrUpdate(s, c, refs)
  IN IF ~r.ok
       THEN [threw |-> TRUE, index |-> i, c |-> r.c,
             snack |-> <<Note("Failed to add/update layers", 0, "error")>>,
             published |-> <<>>]
       ELSE LET back == reset(i, s, r.c, handlers)
            IN [threw |-> FALSE, index |-> back.index,
                c |-> back.c,
                snack |-> r.snack,
                published |-> r.events \o Published(s)]

\* handleAddToMap, the onFinish of the navigation
handleAddToMap(i, s, c, handlers, refs) ==
  LET r == AddOrUpdate(s, c, refs)
  IN IF ~r.ok
       THEN [threw |-> TRUE, index |-> i, c |-> r.c,
             snack |-> <<Note("Failed to add/update layers", 0, "error")>>,
             published |-> <<>>]
       ELSE LET back == reset(i, s, r.c, handlers)
            IN [threw |-> FALSE, index |-> back.index,
                c |-> [back.c EXCEPT
                         !.st.selectedLayers = <<>>,
                         !.st.layerConfigurations = NoConfigurations,
                         !.st.previewLayers = <<>>,
                         !.st.availableLayers = <<>>,
                         !.st.capabilitiesUrl = "",
                         !.st.error = "",
                         !.st.editMode = FALSE,
                         !.st.editData = <<>>],
                snack |-> r.snack,
                published |-> r.events \o Published(s)]

\* ---------------------------------------------------------------- actions
\* a StepManager just constructed and the rest of the view just mounted
Mounted ==
  /\ currentStepIndex = 0
  /\ renderedStepIndex = 0
  /\ mapLayers = <<>>
  /\ inflight = <<>>
  /\ timers = <<>>
  /\ currentHandlers = FALSE
  /\ snack = <<>>
  /\ hooks = <<>>
  /\ lastOp = Op("init", "none", FALSE, FALSE)
  /\ published = <<>>
  /\ mapTimers = <<>>
  /\ view = "initial"
  /\ localStorage = NoNames
  /\ document = <<>>
  /\ nActions = 0

Init ==
  /\ steps = ViewSteps
  /\ state = InitialState
  /\ Mounted

\* The end of a handler: the queued updates become the state, and if any was
\* queued (rendered) the view renders again and reads currentStepIndex.  PreviewLayersStep.render stores
\* its handlers and, while previewLayers is empty, schedules a timer that
\* captures the rendered state.
CommitPublishing(st, index, map, tm, snk, hk, op, rendered, events) ==
  /\ steps' = steps
  /\ published' = events
  /\ state' = st
  /\ currentStepIndex' = index
  /\ renderedStepIndex' = IF rendered THEN index ELSE renderedStepIndex
  /\ mapLayers' = map
  /\ timers' = IF rendered /\ index = 2 /\ Len(st.previewLayers) = 0
                 THEN Append(tm, Snapshot(st)) ELSE tm
  /\ currentHandlers' = (currentHandlers \/ (rendered /\ index = 2))
  /\ snack' = snk
  /\ hooks' = hk
  /\ lastOp' = op
  /\ nActions' = IF op.op \in {"timer", "settle"} THEN nActions
                   ELSE nActions + 1

\* the end of a handler that publishes nothing, sets no timer of the map and
\* stores no name
Commit(st, index, map, tm, snk, hk, op, rendered) ==
  /\ CommitPublishing(st, index, map, tm, snk, hk, op, rendered, <<>>)
  /\ UNCHANGED <<mapTimers, view, localStorage, document>>

\* there is still a handler to run
Active == nActions < MaxActions

\* a handler that only queues state updates
Update(st, snk, op) ==
  /\ Commit(st, currentStepIndex, mapLayers, timers, snk, <<>>,
            Op(op, "none", FALSE, FALSE), TRUE)
  /\ UNCHANGED inflight

\* the Service Type select of SelectLayersStep.render
SetServiceType ==
  /\ Active
  /\ renderedStepIndex = 0
  /\ \E t \in ServiceTypes :
       /\ t # state.serviceType
       /\ Update([state EXCEPT !.serviceType = t], <<>>, "input")

\* the GetCapabilities URL text field of SelectLayersStep.render
SetUrl ==
  /\ Active
  /\ renderedStepIndex = 0
  /\ \E u \in Urls :
       /\ u # state.capabilitiesUrl
       /\ Update([state EXCEPT !.capabilitiesUrl = u], <<>>, "input")

\* SelectLayersStep.handleCommonServiceSelect, from a chip of the service type
\* selected at the moment
handleCommonServiceSelect ==
  /\ Active
  /\ renderedStepIndex = 0
  /\ \E service \in commonServices :
       /\ service.type = state.serviceType
       /\ service.url # state.capabilitiesUrl
       /\ Update([state EXCEPT !.serviceType = service.type,
                               !.capabilitiesUrl = service.url],
                 <<>>, "input")

\* SelectLayersStep.handleClearUrl; the button shows while the URL is not ""
handleClearUrl ==
  /\ Active
  /\ renderedStepIndex = 0
  /\ state.capabilitiesUrl # ""
  /\ Update([state EXCEPT !.capabilitiesUrl = "", !.error = "",
                          !.availableLayers = <<>>, !.selectedLayers = <<>>],
            <<>>, "clearUrl")

\* SelectLayersStep.handleLayerToggle, from a checkbox of the rendered list
handleLayerToggle ==
  /\ Active
  /\ renderedStepIndex = 0
  /\ \E k \in 1..Len(state.availableLayers) :
       LET layerName == state.availableLayers[k].name
       IN Update([state EXCEPT !.selectedLayers =
                    IF Includes(@, layerName) THEN RemoveAll(@, layerName)
                    ELSE Append(@, layerName)],
                 <<>>, "input")

\* a Load Layers button that stays enabled during a load
LoadDisabled_whileBlankOnly(s) == Trim(s.capabilitiesUrl) = ""

\* the disabled attribute of the Load Layers button
LoadDisabled(s) == s.loading \/ Trim(s.capabilitiesUrl) = ""

\* SelectLayersStep.handleLoadCapabilities(state, setState, enqueueSnackbar)
\* up to the await
handleLoadCapabilities ==
  /\ Active
  /\ renderedStepIndex = 0
  /\ IF Trim(state.capabilitiesUrl) = ""
       THEN /\ Update([state EXCEPT !.error = "Please enter a GetCapabilities URL"],
                      <<>>, "load")
       ELSE /\ Commit([state EXCEPT !.loading = TRUE, !.error = "",
                                    !.availableLayers = <<>>,
                                    !.selectedLayers = <<>>],
                      currentStepIndex, mapLayers, timers, <<>>, <<>>,
                      Op("load", "none", FALSE, FALSE), TRUE)
            /\ inflight' = Append(inflight,
                                  [url |-> state.capabilitiesUrl,
                                   serviceType |-> state.serviceType,
                                   requested |->
                                     ensureGetCapabilitiesUrl(
                                       state.capabilitiesUrl,
                                       state.serviceType)])

\* the Load Layers button of SelectLayersStep.render, while it is enabled
LoadButton ==
  /\ ~LoadDisabled(state)
  /\ handleLoadCapabilities

\* a continuation without the finally block
AfterAwait_withoutFinally(st, r) ==
  IF r.ok THEN [st EXCEPT !.availableLayers = r.layers]
  ELSE [st EXCEPT !.error = IF r.message # "" THEN r.message
                            ELSE "Failed to load capabilities"]

\* the updaters the try / catch / finally of handleLoadCapabilities queues
\* once parseCapabilities has settled with r
AfterAwait(st, r) ==
  [(IF r.ok THEN [st EXCEPT !.availableLayers = r.layers]
    ELSE [st EXCEPT !.error = IF r.message # "" THEN r.message
                              ELSE "Failed to load capabilities"])
   EXCEPT !.loading = FALSE]

\* the continuation of handleLoadCapabilities after the await: the promise of
\* one in-flight parseCapabilities call settles
LoadSettled ==
  \E k \in 1..Len(inflight), resp \in Responses :
    LET r == parseCapabilities(inflight[k].url, inflight[k].serviceType, resp)
        snk == IF r.ok THEN <<Note("Found layers", Len(r.layers), "success")>>
               ELSE <<Note("Failed to load capabilities", 0, "error")>>
    IN /\ Commit(AfterAwait(state, r), currentStepIndex, mapLayers,
                 timers, snk, <<>>,
                 Op("settle", "none", r.ok, FALSE), TRUE)
       /\ inflight' = [j \in 1..(Len(inflight) - 1) |->
                         IF j < k THEN inflight[j] ELSE inflight[j + 1]]

\* ConfigureLayersStep.handleConfigurationChange from the selects rendered on
\* step 2 in add mode
Choices(s, config, property) ==
  CASE property = "version" ->
         IF s.serviceType = "WMS" THEN {"1.1.1", "1.3.0"} ELSE {"1.0.0"}
    [] property = "format" -> SeqToSet(config.availableFormats)
    [] property = "srs" ->
         \* the three fixed MenuItems; the entries of config.crs, EPSG:4326
         \* in the documents of the model, are among them
         {"EPSG:28992", "EPSG:3857", "EPSG:4326"}
    [] property = "styles" -> {"default"}
    [] OTHER -> {"true", "false"}

ConfigProperties == {"version", "format", "srs", "styles", "transparent"}

\* what the user types into the name field of renderEditMode
EditedNames == {"Renamed"}

\* { ...prev.layerConfigurations, [layerName]: { ...prev.layerConfigurations[
\* layerName], [property]: value } }
SetConfig(configs, layerName, property, value) ==
  LET old == IF layerName \in DOMAIN configs THEN configs[layerName]
             ELSE [layerType |-> "undefined", version |-> "undefined",
                   format |-> "undefined", transparent |-> "undefined",
                   srs |-> "undefined", styles |-> "undefined",
                   title |-> "undefined", availableFormats |-> <<>>]
  IN [n \in DOMAIN configs \cup {layerName} |->
        IF n = layerName THEN [old EXCEPT ![property] = value] ELSE configs[n]]

\* renderEditMode: the text the name field shows, config?.title ||
\* currentName, where currentName is the first truthy of the caption, the
\* group name and the ids of the edit event
displayName(s) ==
  LET editData == s.editData[1]
      currentName == FirstTruthy(<<editData.layerCaption, editData.groupName,
                                   editData.layerId, editData.groupId>>)
      layerName == FirstSelected(s)
      title == IF layerName \in DOMAIN s.layerConfigurations
                 THEN s.layerConfigurations[layerName].title
                 ELSE "undefined"
  IN IF title \in {"", "undefined"} THEN currentName ELSE title

\* ConfigureLayersStep.handleConfigurationChange, from the selects render
\* shows on step 2 in add mode and from the name field of renderEditMode;
\* a field fires onChange only with a value other than the one it shows
handleConfigurationChange ==
  /\ Active
  /\ renderedStepIndex = 1
  /\ IF state.editMode /\ state.editData # <<>>
       THEN \E newName \in EditedNames :
              LET layerName == FirstSelected(state)
              IN /\ newName # displayName(state)
                 /\ Commit([state EXCEPT
                              !.layerConfigurations =
                                 SetConfig(@, layerName, "title", newName)],
                           currentStepIndex, mapLayers, timers, <<>>, <<>>,
                           Op("configure", "none", FALSE, FALSE), TRUE)
       ELSE \E k \in 1..Len(state.selectedLayers) :
              LET layerName == state.selectedLayers[k]
              IN /\ \E j \in 1..Len(state.availableLayers) :
                      state.availableLayers[j].name = layerName
                 /\ layerName \in DOMAIN state.layerConfigurations
                 /\ \E property \in ConfigProperties :
                      \E value \in Choices(state,
                                           state.layerConfigurations[layerName],
                                           property) :
                        /\ value # state.layerConfigurations[layerName][property]
                        /\ Commit([state EXCEPT
                                     !.layerConfigurations =
                                        SetConfig(@, layerName, property, value)],
                                  currentStepIndex, mapLayers, timers, <<>>, <<>>,
                                  Op("configure", "none", FALSE, FALSE), TRUE)
  /\ UNCHANGED inflight

\* StepManager.isLastStep
isLastStep(i) == i = StepCount - 1

\* a Next button that finishes on the last step only
FinishOnNext_onLastStepOnly(s, i) == isLastStep(i)

\* the branch of handleNext that calls onFinish instead of goNext
FinishOnNext(s, i) == s.editMode \/ isLastStep(i)

\* StepNavigation.handleNext, the closure of the last render: canGoNext and
\* isLastStep are what that render computed, while goNext and the reset of
\* the finish action read this.currentStepIndex
handleNext ==
  LET can == canGoNext(renderedStepIndex, state)
      c == Ctx(state, mapLayers, <<>>)
      refs == LiveRefs(state, timers)
  IN /\ Active
     /\ IF ~can.canProceed
          THEN Commit(state, currentStepIndex, mapLayers, timers,
                      <<Note(IF can.message # "" THEN can.message
                             ELSE "Cannot proceed to next step", 0, "warning")>>,
                      <<>>, Op("next", "none", FALSE, FALSE),
                      FALSE)
          ELSE IF FinishOnNext(state, renderedStepIndex)
            THEN \E r \in {handleAddToMap(currentStepIndex, state, c,
                                            currentHandlers, refs)} :
                    /\ CommitPublishing(r.c.st, r.index, r.c.map, timers,
                                        r.snack, r.c.hooks,
                                        Op("next", "onFinish", FALSE, r.threw),
                                        ~r.threw, r.published)
                    /\ mapTimers' = SetTimers(mapTimers, r.c.spawned)
                    /\ localStorage' = r.c.storage
                    /\ view' = view
                    /\ document' = document
            ELSE LET r == goNext(currentStepIndex, state, c, currentHandlers)
                 IN Commit(r.c.st, r.index, r.c.map, timers, <<>>, r.c.hooks,
                           Op("next", "goNext", r.ok, FALSE),
                           r.c.queued)
     /\ UNCHANGED inflight

\* StepNavigation.handlePrevious, with the canGoPrevious of the last render
handlePrevious ==
  LET can == canGoPrevious(renderedStepIndex)
      c == Ctx(state, mapLayers, <<>>)
  IN /\ Active
     /\ IF ~can.canProceed
          THEN Commit(state, currentStepIndex, mapLayers, timers,
                      <<Note(can.message, 0, "warning")>>, <<>>,
                      Op("previous", "none", FALSE, FALSE),
                      FALSE)
          ELSE LET r == goPrevious(currentStepIndex, state, c, currentHandlers)
               IN Commit(r.c.st, r.index, r.c.map, timers, <<>>, r.c.hooks,
                         Op("previous", "goPrevious", r.ok, FALSE),
                         r.c.queued)
     /\ UNCHANGED inflight

\* StepManager.isFirstStep
isFirstStep(i) == i = 0

\* the disabled flag of the current step's getNextButtonConfig(state):
\* SelectLayersStep disables the button while its validation fails, the
\* other two steps never do, and without a current step StepNavigation
\* takes a disabled default
NextButtonDisabled(i, s) ==
  IF ~HasStep(i) THEN TRUE
  ELSE IF i = 0 THEN ~SelectLayersStep_validate(s).isValid
  ELSE FALSE

\* the disabled flag of getPreviousButtonConfig(state): no step disables
\* the button, and the default without a current step is disabled
PreviousButtonDisabled(i, s) == ~HasStep(i)

\* a click on the Next button StepNavigation renders, which is disabled
\* unless canGoNext(state).canProceed and the step's configuration allow it
NextButton ==
  /\ canGoNext(renderedStepIndex, state).canProceed
  /\ ~NextButtonDisabled(renderedStepIndex, state)
  /\ handleNext

\* a click on the Back button, which StepNavigation renders on every step
\* but the first and disables like the Next button
BackButton ==
  /\ ~isFirstStep(renderedStepIndex)
  /\ canGoPrevious(renderedStepIndex).canProceed
  /\ ~PreviousButtonDisabled(renderedStepIndex, state)
  /\ handlePrevious

\* the payloads of 'addexternallayer.goToStep' published by the edit buttons
EditEvents ==
  {[step |-> 2, editMode |-> TRUE, layerId |-> "k", layerCaption |-> "K",
    groupId |-> "", groupName |-> "", layerType |-> "layer"]}

\* the payloads published by the edit buttons of the groups the
\* LayerSwitcher shows for the layers of the application
GroupEditEvents(map) ==
  {[step |-> 2, editMode |-> TRUE, layerId |-> "", layerCaption |-> "",
    groupId |-> "g", groupName |-> "G", layerType |-> "group"] :
     i \in {j \in 1..Len(map) : map[j].layerType = "base"}}

\* the payloads published by the edit buttons of the layers on the map
LayerEditEvents(map) ==
  {[step |-> 2, editMode |-> TRUE, layerId |-> map[i].name,
    layerCaption |-> map[i].caption, groupId |-> "", groupName |-> "",
    layerType |-> "layer"] : i \in {j \in 1..Len(map) : ~map[j].isPreviewLayer}}

\* findGroupInDOM finds no header: it returns null, and groupPosition stays -1
NoGroupInfo == [found |-> FALSE, currentName |-> "", position |-> -1]

\* findGroupInDOM(groupId, originalGroupName): the header that shows the
\* stored name of the group, or its original name
findGroupInDOM(groupId, originalGroupName, storage, doc) ==
  LET storedName == getStoredName(storage, "group", groupId)
      nameToLookFor == FirstTruthy(<<storedName, originalGroupName>>)
      byName == FirstHeader(doc, nameToLookFor)
      byOriginal == IF storedName # "" /\ storedName # originalGroupName
                      THEN FirstHeader(doc, originalGroupName) ELSE 0
      hit == IF byName # 0 THEN byName ELSE byOriginal
  IN IF hit = 0 THEN NoGroupInfo
     ELSE [found |-> TRUE, currentName |-> Trim(doc[hit]),
           position |-> hit - 1]

\* handleGoToStep, the subscriber of 'addexternallayer.goToStep'
handleGoToStep ==
  /\ Active
  /\ \E data \in EditEvents \cup LayerEditEvents(mapLayers)
                 \cup GroupEditEvents(mapLayers) :
       IF data.editMode /\ data.step = 2
         THEN LET r == goToStep(2, currentStepIndex, state,
                                Ctx(state, mapLayers, <<>>), currentHandlers)
                  groupInfo == IF data.layerType = "group"
                                 THEN findGroupInDOM(data.groupId,
                                                     data.groupName,
                                                     localStorage, document)
                                 ELSE NoGroupInfo
                  editData == [layerId |-> data.layerId,
                               layerCaption |-> data.layerCaption,
                               groupId |-> data.groupId,
                               groupName |-> IF groupInfo.found
                                               THEN groupInfo.currentName
                                               ELSE data.groupName,
                               layerType |-> data.layerType,
                               groupPosition |-> groupInfo.position]
              IN Commit([r.c.st EXCEPT !.editMode = TRUE,
                                       !.editData = <<editData>>],
                        r.index, r.c.map, timers, <<>>, r.c.hooks,
                        Op("edit", "goToStep", r.ok, FALSE), TRUE)
         ELSE Commit(state, currentStepIndex, mapLayers, timers, <<>>, <<>>,
                     Op("edit", "none", FALSE, FALSE), FALSE)
  /\ UNCHANGED inflight

\* handleFullscreenToggle, from the button of FullscreenHeader
handleFullscreenToggle ==
  /\ Active
  /\ CommitPublishing([state EXCEPT !.isFullscreen = ~@], currentStepIndex,
                      mapLayers, timers,
                      <<Note(IF state.isFullscreen
                               THEN "Exited fullscreen mode"
                               ELSE "Entered fullscreen mode", 0, "info")>>,
                      <<>>, Op("fullscreen", "none", FALSE, FALSE), TRUE,
                      <<"plugin.fullscreen">>)
  /\ UNCHANGED <<inflight, mapTimers, view, localStorage, document>>

\* the 100 ms timer set by PreviewLayersStep.render fires
PreviewTimer ==
  /\ timers # <<>>
  /\ LET r == createPreviewLayers(Head(timers), state, mapLayers,
                                  LiveRefs(state, timers))
     IN /\ CommitPublishing(r.st, currentStepIndex, r.map, Tail(timers),
                             r.snack, <<>>, Op("timer", "none", r.ok, FALSE),
                             r.ok, <<>>)
        /\ mapTimers' = SetTimers(mapTimers, r.spawned)
  /\ UNCHANGED <<inflight, view, localStorage, document>>

\* a timer of addLayerToMap or of updateGroupName fires
MapTimer ==
  /\ \E i \in Ripe(mapTimers) :
       LET r == TimerCallback(mapTimers[i], mapLayers, view, document,
                              localStorage)
       IN /\ mapLayers' = r.map
          /\ view' = r.view
          /\ published' = r.published
          /\ document' = r.document
          /\ localStorage' = r.storage
          /\ mapTimers' = SubSeq(mapTimers, 1, i - 1) \o r.next
                            \o SubSeq(mapTimers, i + 1, Len(mapTimers))
  /\ snack' = <<>>
  /\ hooks' = <<>>
  /\ lastOp' = Op("maptimer", "none", TRUE, FALSE)
  /\ UNCHANGED <<steps, state, currentStepIndex, renderedStepIndex, inflight,
                 timers, currentHandlers, nActions>>

\* stepManager.goNext(state, setState) called directly, as a unit test or
\* another component holding the StepManager would
StepManager_goNext ==
  /\ Active
  /\ LET r == goNext(currentStepIndex, state, Ctx(state, mapLayers, <<>>),
                     currentHandlers)
     IN Commit(r.c.st, r.index, r.c.map, timers, <<>>, r.c.hooks,
               Op("api", "goNext", r.ok, FALSE), r.c.queued)
  /\ UNCHANGED inflight

\* stepManager.goPrevious(state, setState) called directly
StepManager_goPrevious ==
  /\ Active
  /\ LET r == goPrevious(currentStepIndex, state, Ctx(state, mapLayers, <<>>),
                         currentHandlers)
     IN Commit(r.c.st, r.index, r.c.map, timers, <<>>, r.c.hooks,
               Op("api", "goPrevious", r.ok, FALSE), r.c.queued)
  /\ UNCHANGED inflight

\* the step numbers a direct caller passes to goToStep
StepNumbers == 0..(StepCount + 1)

\* stepManager.goToStep(stepNumber, state, setState) called directly
StepManager_goToStep ==
  /\ Active
  /\ \E stepNumber \in StepNumbers :
       LET r == goToStep(stepNumber, currentStepIndex, state,
                         Ctx(state, mapLayers, <<>>), currentHandlers)
       IN Commit(r.c.st, r.index, r.c.map, timers, <<>>, r.c.hooks,
                 Op("api", "goToStep", r.ok, FALSE), r.c.queued)
  /\ UNCHANGED inflight

\* stepManager.reset(state, setState) called directly; it returns nothing,
\* lastOp keeps what its goToStep returned
StepManager_reset ==
  /\ Active
  /\ LET r == reset(currentStepIndex, state, Ctx(state, mapLayers, <<>>),
                    currentHandlers)
     IN Commit(r.c.st, r.index, r.c.map, timers, <<>>, r.c.hooks,
               Op("api", "reset", r.ok, FALSE), r.c.queued)
  /\ UNCHANGED inflight

\* the wizard in the hands of its user, who types the URL; the chips of the
\* common services, which fill in the URL field, are used in UrlSpec
Next ==
  \/ SetServiceType
  \/ SetUrl
  \/ handleCommonServiceSelect
  \/ handleClearUrl
  \/ handleLayerToggle
  \/ LoadButton
  \/ LoadSettled
  \/ handleConfigurationChange
  \/ NextButton
  \/ BackButton
  \/ handleGoToStep
  \/ handleFullscreenToggle
  \/ PreviewTimer
  \/ MapTimer

Spec == Init /\ [][Next]_vars

\* the wizard once the capabilities of the first chip are loaded: the state
\* after handleCommonServiceSelect, handleLoadCapabilities and a response
\* with the layers a and b
ApiInit ==
  /\ steps = ViewSteps
  /\ Mounted
  /\ \E service \in commonServices :
       /\ service.name = "PDOK Luchtfoto WMS"
       /\ state =
            [InitialState EXCEPT
               !.capabilitiesUrl = service.url,
               !.availableLayers =
                  parseCapabilities(service.url, service.type,
                                    [kind |-> "xml", names |-> <<"a", "b">>]).layers]

\* the StepManager called directly, together with the handlers of the wizard
\* that navigate or change what the steps validate and do; the calls are
\* over before a timer fires
ApiNext ==
  \/ handleLayerToggle
  \/ handleNext
  \/ handlePrevious
  \/ handleGoToStep
  \/ StepManager_goNext
  \/ StepManager_goPrevious
  \/ StepManager_goToStep
  \/ StepManager_reset

ApiSpec == ApiInit /\ [][ApiNext]_vars

\* the loader of the Select step on every URL text of UrlInputs
UrlInit ==
  /\ steps = ViewSteps
  /\ Mounted
  /\ \E u \in UrlInputs, t \in ServiceTypes :
       state = [InitialState EXCEPT !.capabilitiesUrl = u.text,
                                    !.serviceType = t]

UrlNext ==
  \/ SetServiceType
  \/ handleCommonServiceSelect
  \/ LoadButton
  \/ LoadSettled
  \/ handleClearUrl

UrlSpec == UrlInit /\ [][UrlNext]_vars

\* stepManager.addStep(step) on a StepManager constructed without steps
StepManager_addStep ==
  /\ Len(steps) < MaxSteps
  /\ \E step \in StepInstances :
       /\ steps' = addStep(steps, step)
       /\ lastOp' = Op("api", step.title, TRUE, FALSE)
  /\ UNCHANGED <<state, currentStepIndex, renderedStepIndex, mapLayers,
                 inflight, timers,
                 currentHandlers, snack, hooks, published, mapTimers,
                 view, localStorage, document, nActions>>

\* new StepManager() followed by addStep calls in any order
BuildInit ==
  /\ steps = <<>>
  /\ state = InitialState
  /\ Mounted

BuildSpec == BuildInit /\ [][StepManager_addStep]_vars

\* the first step with handleLoadCapabilities called on the rendered state
\* whatever the button shows, as a test of the step would call it
LoadNext ==
  \/ SetUrl
  \/ handleLoadCapabilities
  \/ LoadSettled
  \/ handleLayerToggle

LoadSpec == Init /\ [][LoadNext]_vars

\* a layer the application put on the map itself; zIndex 0 stands for a
\* layer whose getZIndex() is undefined or 0
OtherLayer(id, z) ==
  [id |-> id, name |-> "background", layerId |-> "k",
   caption |-> "Background", layerType |-> "base", visible |-> TRUE,
   osmSource |-> FALSE,
   serviceType |-> "undefined", isPreviewLayer |-> FALSE, opacity |-> 100,
   zIndex |-> z, VERSION |-> "undefined", FORMAT |-> "undefined",
   TRANSPARENT |-> "undefined", SRS |-> "undefined", STYLE |-> "undefined",
   LAYERS |-> "undefined"]

\* the OpenStreetMap layer of the application, hidden while another
\* background shows
OSMLayer(id, z) ==
  [OtherLayer(id, z) EXCEPT !.name = "osm", !.layerId = "osm",
                            !.caption = "OpenStreetMap", !.visible = FALSE,
                            !.osmSource = TRUE]

\* the z-indices the layers of the application can have
ZIndices == {0, 1000, 1001, 2500}

\* the maps addLayerToMap can be given: up to two layers of the application
OtherMaps ==
  {<<>>} \cup {<<OtherLayer(1, z)>> : z \in ZIndices}
    \cup {<<OtherLayer(1, y), OSMLayer(2, z)>> : y \in ZIndices, z \in ZIndices}

\* the layer infos the callers of addLayerToMap build
LayerInfos ==
  {EnhancedLayer(l, DefaultConfiguration([serviceType |-> l.serviceType], l), 100) :
     l \in {WMSLayerInfo("a", "https://service.pdok.nl/brt/achtergrondkaart/wms/v2_0"),
            WMSLayerInfo("b", "https://example.org/wms"),
            WMTSLayerInfo("a", "https://service.pdok.nl/hwh/luchtfotorgb/wmts/v1_0/WMTSCapabilities.xml"),
            WMTSLayerInfo("c", "https://service.pdok.nl/hwh/luchtfotorgb/wmts/v1_0/WMTSCapabilities.xml"),
            WMTSLayerInfo("a", "service.pdok.nl/wms")}}

MapInit ==
  /\ steps = ViewSteps
  /\ state = InitialState
  /\ currentStepIndex = 0
  /\ renderedStepIndex = 0
  /\ mapLayers \in OtherMaps
  /\ inflight = <<>>
  /\ timers = <<>>
  /\ currentHandlers = FALSE
  /\ snack = <<>>
  /\ hooks = <<>>
  /\ lastOp = Op("init", "none", FALSE, FALSE)
  /\ published = <<>>
  /\ mapTimers = <<>>
  /\ view = "initial"
  /\ localStorage = NoNames
  /\ document = <<>>
  /\ nActions = 0

\* one call addLayerToMap(map, layerInfo, serviceType, capabilitiesUrl,
\* globalObserver), with an observer or without one
AddLayer ==
  /\ Len(mapLayers) < MaxLayers
  /\ \E layerInfo \in LayerInfos, serviceType \in ServiceTypes \cup {"WFS"},
        observer \in BOOLEAN :
       LET r == addLayerToMap(mapLayers, layerInfo, serviceType,
                              FreshId(mapLayers, {}), observer)
       IN /\ mapLayers' = r.map
          /\ mapTimers' = SetTimers(mapTimers, r.spawned)
          /\ lastOp' = Op("add", "addLayerToMap", r.ok, ~r.ok)
  /\ UNCHANGED <<steps, state, currentStepIndex, renderedStepIndex, inflight,
                 timers,
                 currentHandlers, snack, hooks, published, view,
                 localStorage, document, nActions>>

\* addLayerToMap called again and again on a map of the application, and
\* the timers it sets
MapSpec == MapInit /\ [][AddLayer \/ MapTimer]_vars

\* the maps the edit buttons of the LayerSwitcher are used on: the
\* background layer of the application, with the id k or without an id
ApplicationMaps ==
  {<<OtherLayer(1, 0)>>, <<[OtherLayer(1, 0) EXCEPT !.layerId = ""]>>}

\* the names earlier sessions can have left in localStorage
StoredNames ==
  {NoNames, setStoredName(NoNames, "group", "g", "Stored name"),
   setStoredName(NoNames, "layer", "k", "Stored name")}

\* the group headers the LayerSwitcher can show when the wizard is mounted:
\* none, the header of group g under its own name, or under the name an
\* earlier edit has stored
Documents(storage) ==
  {<<>>, <<"G">>}
    \cup (IF getStoredName(storage, "group", "g") # ""
           THEN {<<getStoredName(storage, "group", "g")>>} ELSE {})

\* the wizard mounted on a map of the application
EditInit ==
  /\ steps = ViewSteps
  /\ state = InitialState
  /\ currentStepIndex = 0
  /\ renderedStepIndex = 0
  /\ mapLayers \in ApplicationMaps
  /\ inflight = <<>>
  /\ timers = <<>>
  /\ currentHandlers = FALSE
  /\ snack = <<>>
  /\ hooks = <<>>
  /\ lastOp = Op("init", "none", FALSE, FALSE)
  /\ published = <<>>
  /\ mapTimers = <<>>
  /\ view = "initial"
  /\ localStorage \in StoredNames
  /\ document \in Documents(localStorage)
  /\ nActions = 0

\* the edit buttons, the name field and the navigation
EditNext ==
  \/ handleGoToStep
  \/ handleConfigurationChange
  \/ NextButton
  \/ BackButton
  \/ MapTimer

EditSpec == EditInit /\ [][EditNext]_vars

\* the wizard when every fetch promise settles
FairSpec == Spec /\ WF_vars(LoadSettled)

\* ----------------------------------------------------------- properties
NamesOf(layers) == {layers[i].name : i \in 1..Len(layers)}

\* the step taken is a click on the Next / Finish button
NextClicked == lastOp'.op = "next"

\* the step taken is the continuation of a load whose promise settled
Settled == lastOp'.op = "settle"

\* C1: in every reachable state every name in selectedLayers is the name of
\* some layer in availableLayers.  The code breaks it: an edit event that
\* arrives while a load is in flight fills both lists with the edited item,
\* and the load then replaces availableLayers only.
C1_SelectedAreAvailable ==
  SeqToSet(state.selectedLayers) \subseteq NamesOf(state.availableLayers)

\* C2: after the final button of the Preview step is clicked in add mode with
\* preview layers present, every previewed layer is on the map as a permanent
\* layer (isPreviewLayer false, opacity 1).  The code breaks it: the reset
\* that ends handleAddToMap runs PreviewLayersStep.onExit, which removes the
\* layers just committed.
C2_PreviewedLayersStayOnMap ==
  [][(/\ NextClicked
      /\ lastOp'.called = "onFinish"
      /\ ~lastOp'.threw
      /\ ~state.editMode
      /\ currentStepIndex = StepCount - 1
      /\ state.previewLayers # <<>>)
     => \A id \in SeqToSet(state.previewLayers) :
          \E i \in 1..Len(mapLayers') :
            /\ mapLayers'[i].id = id
            /\ ~mapLayers'[i].isPreviewLayer
            /\ mapLayers'[i].opacity = 100]_vars

\* C3: while the current step's validate(state) is invalid, goNext returns
\* false, leaves currentStepIndex alone and invokes no hook, and the Next
\* handler of StepNavigation only shows a warning: it calls neither goNext nor
\* onFinish and changes nothing else.
C3_InvalidBlocksNavigation ==
  [][~validate(currentStepIndex, state).isValid
     => /\ (lastOp'.op = "api" /\ lastOp'.called = "goNext")
             => /\ ~lastOp'.ok
                /\ currentStepIndex' = currentStepIndex
                /\ hooks' = <<>>
                /\ state' = state
        /\ NextClicked
             => /\ lastOp'.called = "none"
                /\ currentStepIndex' = currentStepIndex
                /\ hooks' = <<>>
                /\ state' = state
                /\ mapLayers' = mapLayers
                /\ Len(snack') = 1
                /\ snack'[1].variant = "warning"]_vars

\* goNext has just refused to leave a step whose state is invalid
C3_Witness ==
  /\ lastOp.op = "api" /\ lastOp.called = "goNext" /\ ~lastOp.ok
  /\ ~validate(currentStepIndex, state).isValid
  /\ hooks = <<>>

\* the case C4 is about: add mode, not the last step, a valid state
CanAdvance ==
  /\ ~state.editMode
  /\ currentStepIndex < StepCount - 1
  /\ validate(currentStepIndex, state).isValid

\* C4 as stated: from a valid state of a step other than the last, in add
\* mode, a Next click increases currentStepIndex by exactly 1 and goNext
\* returns true; no Next click changes the index by more than 1.  The finish
\* click on the Preview step takes the index from 2 to 0.
C4_NextChangesIndexByAtMostOne ==
  [][NextClicked
     => /\ CanAdvance => /\ currentStepIndex' = currentStepIndex + 1
                          /\ lastOp'.called = "goNext" /\ lastOp'.ok
        /\ currentStepIndex' - currentStepIndex \in {-1, 0, 1}]_vars

\* C4, amended: from a valid state of a step other than the last, in add
\* mode, a Next click increases currentStepIndex by exactly 1 and goNext
\* returns true; no Next click increases the index by more than 1, and the
\* only Next click that changes it by more than 1 is the finish click, which
\* resets the wizard to its first step.
C4_NextAdvancesByOne ==
  [][NextClicked
     => /\ CanAdvance => /\ currentStepIndex' = currentStepIndex + 1
                          /\ lastOp'.called = "goNext" /\ lastOp'.ok
        /\ currentStepIndex' - currentStepIndex =< 1
        /\ currentStepIndex' - currentStepIndex < -1
             => lastOp'.called = "onFinish" /\ currentStepIndex' = 0]_vars

\* a Next click has just advanced the wizard from Configure to Preview
C4_Witness ==
  /\ lastOp.op = "next" /\ lastOp.called = "goNext" /\ lastOp.ok
  /\ currentStepIndex = 2
  /\ ~state.editMode

\* C5: SelectLayersStep.validate is invalid, with the message 'Please select
\* at least one layer', exactly when selectedLayers is empty, and no Next
\* click moves the wizard from step 1 to step 2 while selectedLayers is empty.
C5_EmptySelectionBlocksStepOne ==
  /\ [](LET v == SelectLayersStep_validate(state)
        IN /\ v.isValid = (state.selectedLayers # <<>>)
           /\ ~v.isValid => v.message = "Please select at least one layer")
  /\ [][(NextClicked /\ currentStepIndex = 0 /\ currentStepIndex' = 1)
        => state.selectedLayers # <<>>]_vars

\* step 1 shows the layers of a loaded service with none of them selected
\* after a checkbox was clicked: validate answers with its message, and the
\* Next button StepNavigation renders from it is disabled
C5_Witness ==
  /\ lastOp.op = "input"
  /\ currentStepIndex = 0
  /\ state.availableLayers # <<>>
  /\ state.selectedLayers = <<>>
  /\ SelectLayersStep_validate(state) =
       [isValid |-> FALSE, message |-> "Please select at least one layer"]
  /\ ~canGoNext(currentStepIndex, state).canProceed
  /\ NextButtonDisabled(currentStepIndex, state)

\* C6: at most one parseCapabilities call is in flight, and while one is the
\* state is loading and the Load button is disabled.
C6_AtMostOneFetchInFlight ==
  /\ Len(inflight) =< 1
  /\ inflight # <<>> => state.loading /\ LoadDisabled(state)

\* a load is in flight while the URL field holds a URL, so that only the
\* loading flag keeps the Load button disabled
C6_Witness ==
  /\ Len(inflight) = 1
  /\ currentStepIndex = 0
  /\ Trim(state.capabilitiesUrl) # ""

\* C7: when the last load in flight settles, availableLayers is the list that
\* load returned, or empty if it failed, whatever happened while it was in
\* flight.  The code breaks it: an edit event handled during the flight fills
\* availableLayers, and a failing load leaves that entry in place.
C7_LastFetchWins ==
  [][(Settled /\ Len(inflight) = 1 /\ inflight' = <<>>)
     => \E resp \in Responses :
          LET r == parseCapabilities(inflight[1].url, inflight[1].serviceType,
                                     resp)
          IN /\ r.ok = lastOp'.ok
             /\ state'.availableLayers = r.layers]_vars

\* C8: a load that fails leaves a non-empty error, enqueues the notification
\* 'Failed to load capabilities', leaves availableLayers and selectedLayers
\* empty, ends the loading state and starts no other request.  The code
\* breaks the emptiness of the two lists through the edit event of C1.
C8_LoadFailureIsCaught ==
  [][(Settled /\ ~lastOp'.ok)
     => /\ state'.error # ""
        /\ snack' = <<Note("Failed to load capabilities", 0, "error")>>
        /\ state'.availableLayers = <<>>
        /\ state'.selectedLayers = <<>>
        /\ ~state'.loading
        /\ Len(inflight') = Len(inflight) - 1]_vars

\* C9: whenever loading is true it is eventually false again, provided the
\* fetch promise settles, and only the continuation of the load sets loading
\* back to false.
C9_LoadingEventuallyEnds ==
  /\ state.loading ~> ~state.loading
  /\ [][(state.loading /\ ~state'.loading) => Settled]_vars

\* a load that failed has just ended the loading state
C9_Witness ==
  /\ lastOp.op = "settle" /\ ~lastOp.ok
  /\ ~state.loading
  /\ inflight = <<>>

\* C10: on the Preview step in add mode, every preview layer carries the
\* version, format, transparent, srs and styles values configured for it in
\* layerConfigurations.  The code breaks it: createWMSLayer requests version
\* 1.1.1, image/png, transparent and the projection of the map whatever was
\* configured.
C10_ConfiguredParametersApplied ==
  (currentStepIndex = StepCount - 1 /\ ~state.editMode)
  => \A i \in 1..Len(mapLayers) :
       (/\ mapLayers[i].id \in SeqToSet(state.previewLayers)
        /\ mapLayers[i].LAYERS \in DOMAIN state.layerConfigurations)
       => LET config == state.layerConfigurations[mapLayers[i].LAYERS]
          IN /\ mapLayers[i].VERSION = config.version
             /\ mapLayers[i].FORMAT = config.format
             /\ mapLayers[i].TRANSPARENT = config.transparent
             /\ mapLayers[i].SRS = config.srs
             /\ mapLayers[i].STYLE = config.styles

\* C11: while editMode is true, a Next click whose validation passes invokes
\* the finish action and never StepManager.goNext, on whatever step the
\* wizard is, so the click never advances the step index.
C11_EditModeNextFinishes ==
  [][(NextClicked /\ state.editMode
      /\ canGoNext(currentStepIndex, state).canProceed)
     => /\ lastOp'.called = "onFinish"
        /\ currentStepIndex' =< currentStepIndex]_vars

\* a Next click on the Configure step in edit mode has just run the finish
\* action, which left that step for the first one
C11_Witness ==
  /\ lastOp.op = "next" /\ lastOp.called = "onFinish"
  /\ snack = <<Note("Could not find layer to update", 0, "error")>>
  /\ hooks # <<>> /\ hooks[1] = <<"onExit", 2, 1>>
  /\ currentStepIndex = 0

\* the step taken ran a StepManager navigation call that reported success:
\* goNext, goPrevious or goToStep returned true, or handleAddToMap reached
\* its reset, whose goToStep(1) always succeeds
MovedOk ==
  \/ lastOp'.called \in {"goNext", "goPrevious", "goToStep", "reset"}
       /\ lastOp'.ok
  \/ lastOp'.called = "onFinish" /\ ~lastOp'.threw

\* the step taken ran a StepManager navigation call that returned false
MoveRefused ==
  lastOp'.called \in {"goNext", "goPrevious", "goToStep", "reset"}
    /\ ~lastOp'.ok

\* C12: a successful goNext, goPrevious or goToStep invokes exactly two
\* hooks: onExit of the step being left, while currentStepIndex still has its
\* old value, and then onEnter of the step being entered, once
\* currentStepIndex has its new value; a call that returns false invokes no
\* hook.  The code breaks it through the defect of C16: goNext on the last
\* step succeeds, runs onExit and enters no step.
C12_LifecycleOrder ==
  [][/\ MovedOk
          => hooks' = <<<<"onExit", currentStepIndex + 1, currentStepIndex>>,
                        <<"onEnter", currentStepIndex' + 1, currentStepIndex'>>>>
     /\ MoveRefused => hooks' = <<>> /\ currentStepIndex' = currentStepIndex]_vars

\* C13: canGoPrevious refuses exactly on the first step; goPrevious on the
\* first step returns false and changes nothing; on any other step it returns
\* true and decreases currentStepIndex by exactly 1, whatever the validation
\* of the state says.
C13_BackwardNavigation ==
  [][/\ canGoPrevious(currentStepIndex).canProceed = (currentStepIndex # 0)
     /\ canGoPrevious(currentStepIndex').canProceed = (currentStepIndex' # 0)
     /\ lastOp'.called = "goPrevious"
          => IF currentStepIndex = 0
               THEN /\ ~lastOp'.ok
                    /\ hooks' = <<>>
                    /\ UNCHANGED <<state, currentStepIndex, mapLayers, inflight,
                                   timers, currentHandlers>>
               ELSE /\ lastOp'.ok
                    /\ currentStepIndex' = currentStepIndex - 1]_vars

\* goPrevious has just left the Configure step for the first one with a
\* state the first step does not accept
C13_Witness ==
  /\ lastOp.called = "goPrevious" /\ lastOp.ok
  /\ hooks # <<>> /\ hooks[1] = <<"onExit", 2, 1>>
  /\ currentStepIndex = 0
  /\ ~validate(currentStepIndex, state).isValid

\* the values of the pairs of params named name, in order
ValuesOf(params, name) ==
  LET hits == SelectSeq(params, LAMBDA e : e[1] = name)
  IN [i \in 1..Len(hits) |-> hits[i][2]]

\* the pairs of params other than the GetCapabilities parameters, in order
OtherParams(params) ==
  SelectSeq(params, LAMBDA e : e[1] \notin {"SERVICE", "REQUEST", "VERSION"})

\* C14: the URL requested for a load is the typed text itself when that text
\* does not parse; otherwise it has exactly one SERVICE, the service type,
\* exactly one REQUEST, GetCapabilities, the VERSION values of the typed URL
\* if it had any and else VERSION=1.3.0 for WMS and none for WMTS, and every
\* other parameter of the typed URL; ensureGetCapabilitiesUrl maps it to
\* itself.
C14_GetCapabilitiesUrl ==
  \A k \in 1..Len(inflight) :
    LET serviceType == inflight[k].serviceType
        typed == URL(inflight[k].url)
        requested == URL(inflight[k].requested)
    IN IF ~typed.ok THEN inflight[k].requested = inflight[k].url
       ELSE /\ requested.ok
            /\ requested.base = typed.base
            /\ ValuesOf(requested.params, "SERVICE") = <<serviceType>>
            /\ ValuesOf(requested.params, "REQUEST") = <<"GetCapabilities">>
            /\ ValuesOf(requested.params, "VERSION") =
                 IF SearchParams_has(typed.params, "VERSION")
                   THEN ValuesOf(typed.params, "VERSION")
                   ELSE IF serviceType = "WMS" THEN <<"1.3.0">> ELSE <<>>
            /\ OtherParams(requested.params) = OtherParams(typed.params)
            /\ ensureGetCapabilitiesUrl(inflight[k].requested, serviceType)
                 = inflight[k].requested

\* a WMS load is in flight for a URL typed with VERSION=1.1.1
C14_Witness ==
  /\ Len(inflight) = 1
  /\ inflight[1].serviceType = "WMS"
  /\ ValuesOf(URL(inflight[1].url).params, "VERSION") = <<"1.1.1">>
  /\ inflight[1].requested # inflight[1].url

\* C15: after any sequence of addStep calls getAllSteps() is in
\* non-decreasing stepNumber order, and when the calls added the three steps
\* of the view, in whatever order, it is Select, Configure, Preview.
C15_StepsSorted ==
  /\ \A i, j \in 1..Len(steps) :
       i < j => steps[i].stepNumber =< steps[j].stepNumber
  /\ (Len(steps) = 3
      /\ SeqToSet(steps) = {SelectLayersStep, ConfigureLayersStep,
                            PreviewLayersStep})
       => steps = <<SelectLayersStep, ConfigureLayersStep, PreviewLayersStep>>

\* the Select step was added after the other two and stands first
C15_Witness ==
  /\ lastOp.called = SelectLayersStep.title
  /\ steps = <<SelectLayersStep, ConfigureLayersStep, PreviewLayersStep>>

\* C16: currentStepIndex stays between 0 and steps.length - 1, so that
\* getCurrentStep() is never undefined.  The code breaks it: canGoNext
\* accepts a valid state on the last step, and goNext then increments the
\* index past the last step.
C16_IndexInRange ==
  /\ 0 =< currentStepIndex /\ currentStepIndex =< Len(steps) - 1
  /\ HasStep(currentStepIndex)

\* the step taken is a finish action that did not throw
Finished ==
  NextClicked /\ lastOp'.called = "onFinish" /\ ~lastOp'.threw

\* C17: a finish action that does not throw, in add mode or in edit mode,
\* leaves the wizard on its first step with selectedLayers,
\* layerConfigurations, previewLayers and availableLayers empty,
\* capabilitiesUrl and error empty, editMode false and editData null, and
\* leaves serviceType and isFullscreen as they were.
C17_FinishResets ==
  [][Finished
     => /\ currentStepIndex' = 0
        /\ state'.selectedLayers = <<>>
        /\ state'.layerConfigurations = NoConfigurations
        /\ state'.previewLayers = <<>>
        /\ state'.availableLayers = <<>>
        /\ state'.capabilitiesUrl = ""
        /\ state'.error = ""
        /\ ~state'.editMode
        /\ state'.editData = <<>>
        /\ state'.serviceType = state.serviceType
        /\ state'.isFullscreen = state.isFullscreen]_vars

\* a finish in add mode has just added a WMTS layer
C17_Witness ==
  /\ lastOp.op = "next" /\ lastOp.called = "onFinish" /\ ~lastOp.threw
  /\ snack = <<Note("Added 1 layer to map", 1, "success")>>
  /\ currentStepIndex = 0
  /\ state.serviceType = "WMTS"
  /\ state.selectedLayers = <<>>

\* the step taken is a finish action that threw
FinishThrew ==
  NextClicked /\ lastOp'.called = "onFinish" /\ lastOp'.threw

\* C18: a finish action that throws is caught: the notification 'Failed to
\* add/update layers' is shown, the wizard is not reset (currentStepIndex,
\* selectedLayers, layerConfigurations and editMode are unchanged), and the
\* layers on the map before the failure, those the action itself added
\* included, stay on the map.
C18_FinishFailureIsCaught ==
  [][FinishThrew
     => /\ snack' = <<Note("Failed to add/update layers", 0, "error")>>
        /\ currentStepIndex' = currentStepIndex
        /\ state'.selectedLayers = state.selectedLayers
        /\ state'.layerConfigurations = state.layerConfigurations
        /\ state'.editMode = state.editMode
        /\ Len(mapLayers') >= Len(mapLayers)
        /\ SubSeq(mapLayers', 1, Len(mapLayers)) = mapLayers
        /\ LET r == AddLayers(LayersToAdd(state), state, mapLayers, <<>>,
                              FALSE, LiveRefs(state, timers), <<>>)
           IN state.editMode \/ mapLayers' = r.map]_vars

\* a finish on the Preview step has just failed on its second layer and left
\* the first one on the map as a permanent layer
C18_Witness ==
  /\ lastOp.op = "next" /\ lastOp.called = "onFinish" /\ lastOp.threw
  /\ currentStepIndex = 2
  /\ Len(state.selectedLayers) = 2
  /\ \E i \in 1..Len(mapLayers) : ~mapLayers[i].isPreviewLayer

\* C19: when goPrevious leaves the Preview step, every layer that was in
\* state.previewLayers is gone from the map and state.previewLayers is empty.
C19_BackCleansPreview ==
  [][(lastOp'.called = "goPrevious" /\ lastOp'.ok /\ currentStepIndex = 2)
     => /\ \A i \in 1..Len(mapLayers') :
             mapLayers'[i].id \notin SeqToSet(state.previewLayers)
        /\ state'.previewLayers = <<>>]_vars

\* Back has just left the Preview step after the preview of a WMS layer had
\* been created, and the map is empty again
C19_Witness ==
  /\ lastOp.op = "previous" /\ lastOp.called = "goPrevious" /\ lastOp.ok
  /\ hooks # <<>> /\ hooks[1] = <<"onExit", 3, 2>>
  /\ currentStepIndex = 1
  /\ timers = <<>>
  /\ state.serviceType = "WMS"
  /\ LayersToAdd(state) # <<>>
  /\ state.previewLayers = <<>>
  /\ mapLayers = <<>>

\* C20: while the wizard is not on the Preview step and no preview timer is
\* pending, no layer on the map has isPreviewLayer true.  The code breaks it:
\* the timer set by PreviewLayersStep.render is never cancelled, and when it
\* fires after Back or Finish createPreviewLayers adds its layers to the map
\* of the stored handlers all the same.
C20_NoPreviewOutsidePreviewStep ==
  (currentStepIndex # 2 /\ timers = <<>>)
    => \A i \in 1..Len(mapLayers) : ~mapLayers[i].isPreviewLayer

\* the positions of the map that hold a layer flagged isPreviewLayer
PreviewsOnMap == {i \in 1..Len(mapLayers) : mapLayers[i].isPreviewLayer}

\* C21: on the Preview step, once every scheduled preview timer has fired and
\* has left its layers in state.previewLayers, state.previewLayers is exactly the set of layers on the map flagged
\* isPreviewLayer, each has opacity 0.7, and there is exactly one of them per
\* selected layer.  The code breaks it: every render with an empty
\* previewLayers schedules its own timer, and each timer adds a full set of
\* preview layers without removing those of the timer before it.
C21_OnePreviewPerSelectedLayer ==
  (currentStepIndex = 2 /\ timers = <<>> /\ state.previewLayers # <<>>)
    => /\ {mapLayers[i].id : i \in PreviewsOnMap}
            = SeqToSet(state.previewLayers)
       /\ \A i \in PreviewsOnMap : mapLayers[i].opacity = 70
       /\ Cardinality(PreviewsOnMap) = Len(state.selectedLayers)
       /\ \A k \in 1..Len(state.selectedLayers) :
             \E i \in PreviewsOnMap :
               mapLayers[i].LAYERS = state.selectedLayers[k]

\* the step taken handled an 'addexternallayer.goToStep' event with
\* editMode = true and step = 2
EditEventHandled == lastOp'.op = "edit" /\ lastOp'.called = "goToStep"

\* C22: an edit event leaves the wizard on step 2 with editMode true and
\* editData set, selectedLayers exactly [layerKey], availableLayers with one
\* entry of that name and layerConfigurations[layerKey].title the current
\* name of the item, on the first event as on later ones.  The code breaks
\* it on the first event: goToStep runs ConfigureLayersStep.onEnter with the
\* state of the render, in which editMode is still false.
C22_EditEventInitializesEntry ==
  [][EditEventHandled
     => /\ currentStepIndex' = 1
        /\ state'.editMode
        /\ state'.editData # <<>>
        /\ LET editData == state'.editData[1]
               layerKey == FirstTruthy(<<editData.layerId, editData.groupId,
                                         "edit-item">>)
               storedName == IF editData.layerType = "group"
                               THEN getStoredName(localStorage, "group",
                                                  editData.groupId)
                               ELSE getStoredName(localStorage, "layer",
                                                  editData.layerId)
               currentName == FirstTruthy(<<storedName,
                                            editData.layerCaption,
                                            editData.groupName,
                                            editData.layerId,
                                            editData.groupId>>)
           IN /\ state'.selectedLayers = <<layerKey>>
              /\ Len(state'.availableLayers) = 1
              /\ state'.availableLayers[1].name = layerKey
              /\ layerKey \in DOMAIN state'.layerConfigurations
              /\ state'.layerConfigurations[layerKey].title = currentName]_vars

\* the step taken is the finish action of an edit of a layer (not a group)
EditFinish ==
  /\ NextClicked /\ lastOp'.called = "onFinish"
  /\ state.editMode /\ state.editData # <<>>
  /\ state.editData[1].layerType # "group"

\* C23: finishing the edit of a layer sets the caption of the map layer the
\* edit data names to layerConfigurations[selectedLayers[0]].title and
\* changes no other layer; without such a layer it shows 'Could not find
\* layer to update' and changes no layer.  Either way the map keeps its
\* layers and 'addexternallayer.closeWindow' is published.  The code breaks
\* it through the defect of C22: after a first edit event there is no
\* configuration to take the title from, and the update throws.
C23_EditFinishUpdatesCaption ==
  [][EditFinish
     => LET existing == ExistingLayer(mapLayers, state.editData[1])
        IN /\ Len(mapLayers') = Len(mapLayers)
           /\ \A i \in 1..Len(mapLayers) : mapLayers'[i].id = mapLayers[i].id
           /\ \E i \in 1..Len(published') :
                 published'[i] = "addexternallayer.closeWindow"
           /\ IF existing = 0
                THEN /\ snack' = <<Note("Could not find layer to update", 0,
                                        "error")>>
                     /\ mapLayers' = mapLayers
                ELSE /\ FirstSelected(state)
                          \in DOMAIN state.layerConfigurations
                     /\ mapLayers' =
                          [mapLayers EXCEPT ![existing].caption =
                             state.layerConfigurations[
                               FirstSelected(state)].title]]_vars

\* C24: in add mode, on the Configure and Preview steps, layerConfigurations
\* has an entry for every selected name and for no other name.
C24_ConfigurationsMatchSelection ==
  (~state.editMode /\ currentStepIndex \in {1, 2})
    => DOMAIN state.layerConfigurations = SeqToSet(state.selectedLayers)

\* the wizard has come back to the Configure step, in add mode, after the
\* selection was changed on step 1, and two layers are configured
C24_Witness ==
  /\ ~state.editMode
  /\ currentStepIndex = 1
  /\ lastOp.op = "next" /\ lastOp.called = "goNext" /\ lastOp.ok
  /\ Len(state.selectedLayers) = 2
  /\ DOMAIN state.layerConfigurations = SeqToSet(state.selectedLayers)
  /\ nActions >= 7

\* the step taken is a Back that moved the wizard
WentBack == lastOp'.op = "previous" /\ lastOp'.called = "goPrevious" /\ lastOp'.ok

\* C25: Back from Configure to Select clears layerConfigurations and
\* previewLayers and leaves selectedLayers, availableLayers, serviceType and
\* capabilitiesUrl unchanged; Back from Preview to Configure keeps the
\* layerConfigurations as the user edited them.
C25_BackKeepsOrClears ==
  [][WentBack =>
       /\ currentStepIndex = 1 =>
            /\ currentStepIndex' = 0
            /\ state'.layerConfigurations = NoConfigurations
            /\ state'.previewLayers = <<>>
            /\ state'.selectedLayers = state.selectedLayers
            /\ state'.availableLayers = state.availableLayers
            /\ state'.serviceType = state.serviceType
            /\ state'.capabilitiesUrl = state.capabilitiesUrl
       /\ currentStepIndex = 2 =>
            /\ currentStepIndex' = 1
            /\ state'.layerConfigurations = state.layerConfigurations]_vars

\* Back has just left the Preview step for the Configure step with a
\* configuration that is not the default one of its layer
C25_WitnessEdited ==
  /\ lastOp.op = "previous" /\ lastOp.called = "goPrevious" /\ lastOp.ok
  /\ hooks # <<>> /\ hooks[1] = <<"onExit", 3, 2>>
  /\ currentStepIndex = 1
  /\ \E i \in 1..Len(state.availableLayers) :
       LET layer == state.availableLayers[i]
       IN /\ layer.name \in DOMAIN state.layerConfigurations
          /\ state.layerConfigurations[layer.name]
               # DefaultConfiguration(state, layer)

\* the step taken put a new layer object on the map
LayersCreated ==
  \E i \in 1..Len(mapLayers') :
    mapLayers'[i].id \notin {mapLayers[j].id : j \in 1..Len(mapLayers)}

\* the state the layers of the step taken are created from: the one captured
\* by the render for the preview timer, the current one for Finish
CreatingState == IF lastOp'.op = "timer" THEN Head(timers) ELSE state

\* C26: whenever layers are created on the map, every layer of
\* availableLayers was parsed for the service type held in state.serviceType.
\* The code breaks it: the service type selector changes serviceType alone
\* and keeps the layers loaded for the other type.
C26_LayersMatchServiceType ==
  [][LayersCreated =>
       \A j \in 1..Len(CreatingState.availableLayers) :
         CreatingState.availableLayers[j].serviceType
           = CreatingState.serviceType]_vars

\* the step taken is a handleLoadCapabilities call on a state whose
\* capabilitiesUrl is empty or white space
BlankLoad == lastOp'.op = "load" /\ state.capabilitiesUrl \in {"", " "}

\* C27: handleLoadCapabilities with an empty or whitespace-only
\* capabilitiesUrl sets error to 'Please enter a GetCapabilities URL', starts
\* no fetch and leaves every other state field unchanged.
C27_BlankUrlIsRefused ==
  [][BlankLoad =>
       /\ state' = [state EXCEPT !.error = "Please enter a GetCapabilities URL"]
       /\ inflight' = inflight
       /\ snack' = <<>>
       /\ UNCHANGED <<currentStepIndex, mapLayers, timers>>]_vars

\* handleLoadCapabilities has just refused a blank URL while layers were
\* listed and selected and an earlier fetch was still pending
C27_Witness ==
  /\ lastOp.op = "load"
  /\ state.capabilitiesUrl \in {"", " "}
  /\ state.error = "Please enter a GetCapabilities URL"
  /\ state.availableLayers # <<>>
  /\ state.selectedLayers # <<>>
  /\ inflight # <<>>

\* the step taken is an addLayerToMap call that returned its layer
Added == lastOp'.called = "addLayerToMap" /\ lastOp'.ok

\* C28: after addLayerToMap returns, the z-index of the added layer is at
\* least 1001 and greater than the z-index of every other layer on the map,
\* so that a layer added after another one lies above it.
C28_AddedLayerOnTop ==
  [][Added =>
       LET n == Len(mapLayers')
       IN /\ n = Len(mapLayers) + 1
          /\ mapLayers'[n].zIndex >= 1001
          /\ \A i \in 1..(n - 1) :
               /\ mapLayers'[i] = mapLayers[i]
               /\ mapLayers'[i].zIndex < mapLayers'[n].zIndex]_vars

\* a WMTS layer has just been added above a WMS layer added before it, on a
\* map that had a layer of the application with z-index 2500
C28_Witness ==
  /\ lastOp.called = "addLayerToMap" /\ lastOp.ok
  /\ Len(mapLayers) = 3
  /\ mapLayers[1].zIndex = 2500
  /\ mapLayers[2].serviceType = "WMS" /\ mapLayers[2].zIndex = 2501
  /\ mapLayers[3].serviceType = "WMTS" /\ mapLayers[3].zIndex = 2502

====
